---------------------------- MODULE Spec2Model ----------------------------
(***************************************************************************)
(* A model of sshdb's session state machine (src/src/app.rs), its host     *)
(* registry (src/src/model.rs), the bastion resolver (src/src/ssh.rs) and  *)
(* the event loop that drives them (src/src/main.rs).                      *)
(*                                                                         *)
(* Strings are sequences of one-character strings, so that trimming,       *)
(* tokenising, formatting and parsing are computed as the code computes    *)
(* them.  Option<T> is a sequence of length 0 (None) or 1 (Some(x)).       *)
(***************************************************************************)
EXTENDS Integers, Sequences, FiniteSets

VARIABLES
    mode,              \* App.mode
    status,            \* App.status
    filter,            \* App.filter
    filtered_indices,  \* App.filtered_indices (0-based host indices)
    selected,          \* App.selected
    dry_run,           \* App.dry_run
    form,              \* App.form          (Option<FormState>)
    confirm,           \* App.confirm       (Option<ConfirmKind>)
    quick_input,       \* App.quick_input   (Option<String>)
    quick_cursor,      \* App.quick_cursor
    show_help,         \* App.show_help
    show_about,        \* App.show_about
    config,            \* App.config        (the live registry)
    history,           \* App.history       (Vec<Config>)
    store,             \* the registry held by the ConfigStore's file
    pc,                \* position of run_loop: "poll", "run_ssh" or "exited"
    result,            \* what on_event returned for the last event
    launch,            \* the argument list of the last RunSsh directive
    op,                \* the operation the last event carried out
    pre                \* the registry before each mutation not yet undone

vars == << mode, status, filter, filtered_indices, selected, dry_run, form,
           confirm, quick_input, quick_cursor, show_help, show_about, config,
           history, store, pc, result, launch, op, pre >>

-----------------------------------------------------------------------------
(* Bounds of the model.                                                     *)

\* Most hosts a registry holds in the model.
MaxHosts == 3
\* Most history pushes of one run of the session specification.
MaxMutations == 2
\* Most commits of one run of the form specification.
MaxCommits == 1
\* Most history pushes of one run of the history specification.
MaxPushes == 22

-----------------------------------------------------------------------------
(* Strings and options.                                                     *)

None == << >>
Some(x) == << x >>
IsSome(o) == Len(o) = 1
Unwrap(o) == o[1]

Min(a, b) == IF a < b THEN a ELSE b

Digits == << "0", "1", "2", "3", "4", "5", "6", "7", "8", "9" >>
IsDigit(c) == \E i \in 1..10 : Digits[i] = c
DigitVal(c) == (CHOOSE i \in 1..10 : Digits[i] = c) - 1
Letters == { "a", "b", "c", "u", "J", "i", "p", "v", "o", "y", "s", "h" }
\* char::is_alphanumeric over the characters of the model
IsAlphanumeric(c) == IsDigit(c) \/ c \in Letters
\* char::is_whitespace over the characters of the model
IsWhitespace(c) == c = " "

Contains(s, c) == \E i \in 1..Len(s) : s[i] = c
StartsWith(s, c) == Len(s) > 0 /\ s[1] = c

\* usize/u16/i32::to_string
RECURSIVE to_string(_)
to_string(n) ==
    IF n < 10 THEN << Digits[n + 1] >>
    ELSE to_string(n \div 10) \o << Digits[(n % 10) + 1] >>

RECURSIVE DecimalValue(_)
DecimalValue(s) ==
    IF s = << >> THEN 0
    ELSE 10 * DecimalValue(SubSeq(s, 1, Len(s) - 1)) + DigitVal(s[Len(s)])

U16Max == 65535

\* str::parse::<u16>: an optional leading '+', then one or more digits, no
\* overflow.  Some(value) or None (the Err case).
ParseU16(s) ==
    LET body == IF StartsWith(s, "+") THEN Tail(s) ELSE s
    IN  IF /\ body # << >>
           /\ \A i \in 1..Len(body) : IsDigit(body[i])
           /\ Len(body) <= 5
           /\ DecimalValue(body) <= U16Max
        THEN Some(DecimalValue(body))
        ELSE None

RECURSIVE TrimStart(_)
TrimStart(s) ==
    IF s # << >> /\ IsWhitespace(s[1]) THEN TrimStart(Tail(s)) ELSE s

RECURSIVE TrimEnd(_)
TrimEnd(s) ==
    IF s # << >> /\ IsWhitespace(s[Len(s)])
    THEN TrimEnd(SubSeq(s, 1, Len(s) - 1))
    ELSE s

\* str::trim
Trim(s) == TrimEnd(TrimStart(s))

\* non_empty(s): Some(trimmed) unless the trimmed text is empty
non_empty(s) == IF Trim(s) = << >> THEN None ELSE Some(Trim(s))

\* str::split(sep) on one character: the pieces between separators, empty
\* pieces included.
RECURSIVE SplitOn(_, _, _)
SplitOn(s, sep, cur) ==
    IF s = << >> THEN << cur >>
    ELSE IF s[1] = sep THEN << cur >> \o SplitOn(Tail(s), sep, << >>)
    ELSE SplitOn(Tail(s), sep, Append(cur, s[1]))

\* str::split_whitespace: the maximal runs of non-whitespace characters
SplitWhitespace(s) ==
    LET pieces == SplitOn(s, " ", << >>)
    IN  SelectSeq(pieces, LAMBDA t : t # << >>)

\* [String]::join(sep)
RECURSIVE Join(_, _)
Join(parts, sep) ==
    IF parts = << >> THEN << >>
    ELSE IF Len(parts) = 1 THEN parts[1]
    ELSE parts[1] \o sep \o Join(Tail(parts), sep)

\* String::insert(idx, c) with a 0-based index
InsertAt(s, idx, c) == SubSeq(s, 1, idx) \o << c >> \o SubSeq(s, idx + 1, Len(s))
\* String::remove(idx) with a 0-based index
RemoveAt(s, idx) == SubSeq(s, 1, idx) \o SubSeq(s, idx + 2, Len(s))
\* String::pop
Pop(s) == IF s = << >> THEN s ELSE SubSeq(s, 1, Len(s) - 1)

-----------------------------------------------------------------------------
(* The registry: Host and Config (src/src/model.rs).                        *)

Host(name, address, user, port, key_path, tags, options, remote_command, bastion, description) ==
    [ name |-> name, address |-> address, user |-> user, port |-> port,
      key_path |-> key_path, tags |-> tags, options |-> options,
      remote_command |-> remote_command, bastion |-> bastion,
      description |-> description ]

Config(default_key, hosts) ==
    [ version |-> 1, default_key |-> default_key, hosts |-> hosts ]

\* Config::find_host as Option<index>: the 1-based position of the first host
\* with that name.
find_host(cfg, name) ==
    IF \E i \in 1..Len(cfg.hosts) : cfg.hosts[i].name = name
    THEN Some(CHOOSE i \in 1..Len(cfg.hosts) :
                /\ cfg.hosts[i].name = name
                /\ \A j \in 1..(i - 1) : cfg.hosts[j].name # name)
    ELSE None

\* Results: Ok(value) or Err(kind, argument)
Ok(v) == [ ok |-> TRUE, val |-> v, err |-> "", arg |-> << >> ]
Err(kind, a) == [ ok |-> FALSE, val |-> << >>, err |-> kind, arg |-> a ]

-----------------------------------------------------------------------------
(* The Connection Spec Parser: parse_ssh_spec.                              *)

SshSpec(address, user, port, key_path, options, bastion, remote_command) ==
    [ address |-> address, user |-> user, port |-> port, key_path |-> key_path,
      options |-> options, bastion |-> bastion,
      remote_command |-> remote_command ]

\* A mutant of is_option_value: a token with an '@' is paired as well.
is_option_value_pairs_targets(next) ==
    /\ ~StartsWith(next, "-")
    /\ \E k \in 1..Len(next) :
           IsAlphanumeric(next[k]) \/ next[k] = ":" \/ next[k] = "/"

\* The heuristic that pairs a token with the unrecognised option before it.
is_option_value(next) ==
    /\ ~StartsWith(next, "-")
    /\ ~Contains(next, "@")
    /\ \E k \in 1..Len(next) :
           IsAlphanumeric(next[k]) \/ next[k] = ":" \/ next[k] = "/"

\* One dash-prefixed token at 1-based position i, and the value it consumes:
\* the accumulated fields and the position of the last token consumed.
consume_flag(tokens, i, acc) ==
    LET token == tokens[i]
        hasNext == i + 1 <= Len(tokens)
    IN  IF token = << "-", "p" >> THEN
            IF hasNext
            THEN [ acc |-> [acc EXCEPT !.port = ParseU16(tokens[i + 1])], i |-> i + 1 ]
            ELSE [ acc |-> acc, i |-> i ]
        ELSE IF token = << "-", "i" >> THEN
            IF hasNext
            THEN [ acc |-> [acc EXCEPT !.key_path = Some(tokens[i + 1])], i |-> i + 1 ]
            ELSE [ acc |-> acc, i |-> i ]
        ELSE IF token = << "-", "J" >> THEN
            IF hasNext
            THEN [ acc |-> [acc EXCEPT !.bastion = Some(tokens[i + 1])], i |-> i + 1 ]
            ELSE [ acc |-> acc, i |-> i ]
        ELSE
            IF hasNext /\ is_option_value(tokens[i + 1])
            THEN [ acc |-> [acc EXCEPT !.options = @ \o << token, tokens[i + 1] >>],
                   i |-> i + 1 ]
            ELSE [ acc |-> [acc EXCEPT !.options = Append(@, token)], i |-> i ]

\* First pass: scan for the target.  target is None when the tokens run out.
RECURSIVE find_target(_, _, _)
find_target(tokens, i, acc) ==
    IF i > Len(tokens) THEN [ acc |-> acc, target |-> None, i |-> i ]
    ELSE IF StartsWith(tokens[i], "-") THEN
        LET r == consume_flag(tokens, i, acc)
        IN  find_target(tokens, r.i + 1, r.acc)
    ELSE [ acc |-> acc, target |-> Some(tokens[i]), i |-> i + 1 ]

\* A mutant of after_target: the first token after the target starts the
\* remote command, a flag or not.
after_target_takes_all(tokens, i, acc) ==
    IF i > Len(tokens) THEN [ acc |-> acc, remote_start |-> None ]
    ELSE [ acc |-> acc, remote_start |-> Some(i) ]

\* Second pass: flags after the target, up to the start of the remote command.
RECURSIVE after_target(_, _, _)
after_target(tokens, i, acc) ==
    IF i > Len(tokens) THEN [ acc |-> acc, remote_start |-> None ]
    ELSE IF StartsWith(tokens[i], "-") THEN
        LET r == consume_flag(tokens, i, acc)
        IN  after_target(tokens, r.i + 1, r.acc)
    ELSE [ acc |-> acc, remote_start |-> Some(i) ]

\* str::split_once('@'): None, or Some(<<before, after>>) at the first '@'
split_once_at(s) ==
    IF Contains(s, "@")
    THEN LET k == CHOOSE k \in 1..Len(s) :
                     s[k] = "@" /\ \A j \in 1..(k - 1) : s[j] # "@"
         IN  Some(<< SubSeq(s, 1, k - 1), SubSeq(s, k + 1, Len(s)) >>)
    ELSE None

\* parse_ssh_spec from the target on: the second pass p2, the user@address
\* split sp of the target, and the remote command.
parse_target(tokens, target, sp, p2) ==
    Ok(SshSpec(IF IsSome(sp) THEN Unwrap(sp)[2] ELSE target,
               IF IsSome(sp) THEN Some(Unwrap(sp)[1]) ELSE None,
               p2.acc.port, p2.acc.key_path, p2.acc.options, p2.acc.bastion,
               IF IsSome(p2.remote_start)
               THEN Some(Join(SubSeq(tokens, Unwrap(p2.remote_start),
                                     Len(tokens)), << " " >>))
               ELSE None))

\* parse_ssh_spec after the first pass p1.
parse_after_scan(tokens, p1) ==
    IF ~IsSome(p1.target) THEN Err("ssh target missing", << >>)
    ELSE parse_target(tokens, Unwrap(p1.target),
                      split_once_at(Unwrap(p1.target)),
                      after_target(tokens, p1.i, p1.acc))

\* parse_ssh_spec on the whitespace-separated tokens: a leading "ssh" is
\* skipped.
parse_tokens(tokens) ==
    parse_after_scan(
        tokens,
        find_target(tokens,
                    IF tokens # << >> /\ tokens[1] = << "s", "s", "h" >>
                    THEN 2 ELSE 1,
                    [ port |-> None, key_path |-> None, bastion |-> None,
                      options |-> << >> ]))

parse_ssh_spec(input) == parse_tokens(SplitWhitespace(input))

-----------------------------------------------------------------------------
(* The Bastion Resolver (src/src/ssh.rs) and validate-all (app.rs).         *)

\* The loop of validate_bastions for one host: seen holds the names walked.
RECURSIVE walk_chain(_, _, _)
walk_chain(cfg, seen, current) ==
    IF \E k \in 1..Len(seen) : seen[k] = current
    THEN Err("Circular bastion reference detected", current)
    ELSE LET found == find_host(cfg, current)
         IN  IF ~IsSome(found) THEN Ok(<< >>)
             ELSE LET bastion == cfg.hosts[Unwrap(found)]
                  IN  IF ~IsSome(bastion.bastion) THEN Ok(<< >>)
                      ELSE walk_chain(cfg, Append(seen, current),
                                      Unwrap(bastion.bastion))

\* A mutant of validate_host: the self-reference test alone, no walk.
validate_host_without_walk(cfg, host) ==
    IF ~IsSome(host.bastion) THEN Ok(<< >>)
    ELSE IF Unwrap(host.bastion) = host.name
    THEN Err("cannot use itself as bastion", host.name)
    ELSE Ok(<< >>)

\* A mutant of validate_host: the self-reference test is left to the walk.
validate_host_walk_only(cfg, host) ==
    IF ~IsSome(host.bastion) THEN Ok(<< >>)
    ELSE walk_chain(cfg, << host.name >>, Unwrap(host.bastion))

\* The body of validate_bastions' for loop for one host.
validate_host(cfg, host) ==
    IF ~IsSome(host.bastion) THEN Ok(<< >>)
    ELSE IF Unwrap(host.bastion) = host.name
    THEN Err("cannot use itself as bastion", host.name)
    ELSE walk_chain(cfg, << host.name >>, Unwrap(host.bastion))

\* A mutant of validate_from: the loop returns after its first host.
validate_first_host_only(cfg, i) ==
    IF i > Len(cfg.hosts) THEN Ok(<< >>) ELSE validate_host(cfg, cfg.hosts[i])

RECURSIVE validate_from(_, _)
validate_from(cfg, i) ==
    IF i > Len(cfg.hosts) THEN Ok(<< >>)
    ELSE LET r == validate_host(cfg, cfg.hosts[i])
         IN  IF r.ok THEN validate_from(cfg, i + 1) ELSE r

\* A mutant of validate_bastions: only the self-reference check, no walk.
validate_bastions_self_only(cfg) ==
    IF \E i \in 1..Len(cfg.hosts) :
           cfg.hosts[i].bastion = Some(cfg.hosts[i].name)
    THEN Err("cannot use itself as bastion", << >>)
    ELSE Ok(<< >>)

\* App::validate_bastions: the first error over the hosts in registry order.
validate_bastions(cfg) == validate_from(cfg, 1)

\* One hop of a proxy chain: [user@]address[:port]
hop_string(h) ==
    LET base == IF IsSome(h.user)
                THEN Unwrap(h.user) \o << "@" >> \o h.address
                ELSE h.address
    IN  IF IsSome(h.port)
        THEN base \o << ":" >> \o to_string(Unwrap(h.port))
        ELSE base

\* A mutant of build_bastion_string: a name that is not registered is used
\* as the address of the hop.
RECURSIVE build_bastion_string_unregistered_hop(_, _, _)
build_bastion_string_unregistered_hop(cfg, bastion_name, visited) ==
    IF \E k \in 1..Len(visited) : visited[k] = bastion_name
    THEN Err("circular bastion reference detected", bastion_name)
    ELSE LET found == find_host(cfg, bastion_name)
         IN  IF ~IsSome(found) THEN Ok(bastion_name)
             ELSE LET bastion == cfg.hosts[Unwrap(found)]
                      nested ==
                          IF IsSome(bastion.bastion)
                          THEN build_bastion_string_unregistered_hop(
                                   cfg, Unwrap(bastion.bastion),
                                   Append(visited, bastion_name))
                          ELSE Ok(<< >>)
                  IN  IF ~nested.ok THEN nested
                      ELSE IF IsSome(bastion.bastion)
                      THEN Ok(nested.val \o << "," >> \o hop_string(bastion))
                      ELSE Ok(hop_string(bastion))

\* A mutant of build_bastion_string: the hop is written before the hops of
\* its own bastion.
RECURSIVE build_bastion_string_nearest_first(_, _, _)
build_bastion_string_nearest_first(cfg, bastion_name, visited) ==
    IF \E k \in 1..Len(visited) : visited[k] = bastion_name
    THEN Err("circular bastion reference detected", bastion_name)
    ELSE LET found == find_host(cfg, bastion_name)
         IN  IF ~IsSome(found) THEN Err("bastion host not found", bastion_name)
             ELSE LET bastion == cfg.hosts[Unwrap(found)]
                      nested ==
                          IF IsSome(bastion.bastion)
                          THEN build_bastion_string_nearest_first(
                                   cfg, Unwrap(bastion.bastion),
                                   Append(visited, bastion_name))
                          ELSE Ok(<< >>)
                  IN  IF ~nested.ok THEN nested
                      ELSE IF IsSome(bastion.bastion)
                      THEN Ok(hop_string(bastion) \o << "," >> \o nested.val)
                      ELSE Ok(hop_string(bastion))

\* ssh::build_bastion_string: Ok(chain) or the error; visited is threaded
\* through the recursion.
RECURSIVE build_bastion_string(_, _, _)
build_bastion_string(cfg, bastion_name, visited) ==
    IF \E k \in 1..Len(visited) : visited[k] = bastion_name
    THEN Err("circular bastion reference detected", bastion_name)
    ELSE LET found == find_host(cfg, bastion_name)
         IN  IF ~IsSome(found) THEN Err("bastion host not found", bastion_name)
             ELSE LET bastion == cfg.hosts[Unwrap(found)]
                      nested ==
                          IF IsSome(bastion.bastion)
                          THEN build_bastion_string(cfg, Unwrap(bastion.bastion),
                                                    Append(visited, bastion_name))
                          ELSE Ok(<< >>)
                  IN  IF ~nested.ok THEN nested
                      ELSE IF IsSome(bastion.bastion)
                      THEN Ok(nested.val \o << "," >> \o hop_string(bastion))
                      ELSE Ok(hop_string(bastion))

\* The names validate_bastions' loop tests in turn for one host, seen being
\* the names pushed so far: the loop ends on a name already seen, on a name
\* no host carries, or on a host without bastion.
RECURSIVE walk_examined(_, _, _)
walk_examined(cfg, seen, current) ==
    IF \E k \in 1..Len(seen) : seen[k] = current THEN << current >>
    ELSE LET found == find_host(cfg, current)
         IN  IF ~IsSome(found) THEN << current >>
             ELSE LET bastion == cfg.hosts[Unwrap(found)]
                  IN  IF ~IsSome(bastion.bastion) THEN << current >>
                      ELSE << current >>
                           \o walk_examined(cfg, Append(seen, current),
                                             Unwrap(bastion.bastion))

\* A mutant of resolve_examined: the test for a visited name skips the
\* first name visited.
RECURSIVE resolve_examined_skips_first(_, _, _)
resolve_examined_skips_first(cfg, bastion_name, visited) ==
    IF \E k \in 2..Len(visited) : visited[k] = bastion_name
    THEN << bastion_name >>
    ELSE LET found == find_host(cfg, bastion_name)
         IN  IF ~IsSome(found) THEN << bastion_name >>
             ELSE LET bastion == cfg.hosts[Unwrap(found)]
                  IN  IF ~IsSome(bastion.bastion) THEN << bastion_name >>
                      ELSE << bastion_name >>
                           \o resolve_examined_skips_first(
                                  cfg, Unwrap(bastion.bastion),
                                  Append(visited, bastion_name))

\* The names the calls of build_bastion_string receive in turn, visited
\* being the names pushed so far: the recursion ends on a name already
\* visited, on a name no host carries, or on a host without bastion.
RECURSIVE resolve_examined(_, _, _)
resolve_examined(cfg, bastion_name, visited) ==
    IF \E k \in 1..Len(visited) : visited[k] = bastion_name
    THEN << bastion_name >>
    ELSE LET found == find_host(cfg, bastion_name)
         IN  IF ~IsSome(found) THEN << bastion_name >>
             ELSE LET bastion == cfg.hosts[Unwrap(found)]
                  IN  IF ~IsSome(bastion.bastion) THEN << bastion_name >>
                      ELSE << bastion_name >>
                           \o resolve_examined(cfg, Unwrap(bastion.bastion),
                                                Append(visited, bastion_name))

\* The process environment select_key and expand_tilde read.
Env(agent, home) == [ agent |-> agent, home |-> home ]

\* PathBuf::from(home).join(rest)
path_join(home, rest) ==
    IF StartsWith(rest, "/") THEN rest
    ELSE IF home = << >> \/ home[Len(home)] = "/" THEN home \o rest
    ELSE home \o << "/" >> \o rest

\* ssh::expand_tilde
expand_tilde(path, env) ==
    IF Len(path) >= 2 /\ path[1] = "~" /\ path[2] = "/" /\ IsSome(env.home)
    THEN path_join(Unwrap(env.home), SubSeq(path, 3, Len(path)))
    ELSE path

\* FALLBACKS[0], "~/.ssh/id_ed25519"
FALLBACK_KEY ==
    << "~", "/", ".", "s", "s", "h", "/", "i", "d", "_", "e", "d", "2", "5", "5", "1", "9" >>
\* the default_key sentinel "agent"
AGENT == << "a", "g", "e", "n", "t" >>

\* ssh::select_key
select_key(host_key, default_key, env) ==
    IF IsSome(host_key) THEN Some(expand_tilde(Unwrap(host_key), env))
    ELSE IF IsSome(default_key) THEN
        IF Unwrap(default_key) = AGENT THEN None
        ELSE Some(expand_tilde(Unwrap(default_key), env))
    ELSE IF env.agent THEN None
    ELSE Some(expand_tilde(FALLBACK_KEY, env))

\* The target argument: [user@]address
target_string(host) ==
    IF IsSome(host.user)
    THEN Unwrap(host.user) \o << "@" >> \o host.address
    ELSE host.address

\* A mutant of tail_args: the stored remote command follows the override.
tail_args_appends_stored_command(host, default_key, extra, env) ==
    LET key == select_key(host.key_path, default_key, env)
    IN  (IF IsSome(host.port)
         THEN << << "-", "p" >>, to_string(Unwrap(host.port)) >> ELSE << >>)
        \o (IF IsSome(key) THEN << << "-", "i" >>, Unwrap(key) >> ELSE << >>)
        \o host.options
        \o << target_string(host) >>
        \o (IF IsSome(extra) THEN << Unwrap(extra) >> ELSE << >>)
        \o (IF IsSome(host.remote_command)
            THEN << Unwrap(host.remote_command) >>
            ELSE << >>)

\* The arguments after the bastion flag, common to build_command and
\* command_preview.
tail_args(host, default_key, extra, env) ==
    LET key == select_key(host.key_path, default_key, env)
    IN  (IF IsSome(host.port)
         THEN << << "-", "p" >>, to_string(Unwrap(host.port)) >> ELSE << >>)
        \o (IF IsSome(key) THEN << << "-", "i" >>, Unwrap(key) >> ELSE << >>)
        \o host.options
        \o << target_string(host) >>
        \o (IF IsSome(extra) THEN << Unwrap(extra) >>
            ELSE IF IsSome(host.remote_command)
            THEN << Unwrap(host.remote_command) >>
            ELSE << >>)

\* ssh::build_command: Ok(the arguments of the ssh process) or the
\* resolver's error.
build_command(host, cfg, default_key, extra, env) ==
    LET chain == IF IsSome(host.bastion)
                 THEN build_bastion_string(cfg, Unwrap(host.bastion), << >>)
                 ELSE Ok(<< >>)
    IN  IF ~chain.ok THEN chain
        ELSE Ok((IF IsSome(host.bastion)
                 THEN << << "-", "J" >>, chain.val >> ELSE << >>)
                \o tail_args(host, default_key, extra, env))

BASTION_ERROR_HEAD ==
    << "-", "J", " ", "<", "e", "r", "r", "o", "r", ":", " ", "b", "a", "s", "t", "i", "o", "n", " ", "'" >>
BASTION_ERROR_TAIL == << "'", " ", "n", "o", "t", " ", "f", "o", "u", "n", "d", ">" >>

\* ssh::command_preview: the parts, space-joined
command_preview(host, cfg, default_key, extra, env) ==
    LET chain == IF IsSome(host.bastion)
                 THEN build_bastion_string(cfg, Unwrap(host.bastion), << >>)
                 ELSE Ok(<< >>)
        jump == IF ~IsSome(host.bastion) THEN << >>
                ELSE IF chain.ok THEN << << "-", "J" >>, chain.val >>
                ELSE << BASTION_ERROR_HEAD \o Unwrap(host.bastion)
                        \o BASTION_ERROR_TAIL >>
    IN  Join(<< << "s", "s", "h" >> >> \o jump
             \o tail_args(host, default_key, extra, env), << " " >>)

-----------------------------------------------------------------------------
(* The Fuzzy Filter.                                                        *)

\* The composite haystack of one host: name, address, tags, description.
haystack(host) ==
    host.name \o << " " >> \o host.address \o << " " >>
    \o Join(host.tags, << " " >>) \o << " " >>
    \o (IF IsSome(host.description) THEN Unwrap(host.description) ELSE << >>)

\* The positions of the leftmost subsequence match of pattern in hay from
\* position from on, or << 0 >> when there is none.
RECURSIVE match_positions(_, _, _)
match_positions(hay, pattern, from) ==
    IF pattern = << >> THEN << >>
    ELSE IF \E k \in from..Len(hay) : hay[k] = pattern[1]
    THEN LET k == CHOOSE k \in from..Len(hay) :
                     /\ hay[k] = pattern[1]
                     /\ \A j \in from..(k - 1) : hay[j] # pattern[1]
             rest == match_positions(hay, Tail(pattern), k + 1)
         IN  IF rest = << 0 >> THEN << 0 >> ELSE << k >> \o rest
    ELSE << 0 >>

\* SkimMatcherV2::fuzzy_match (an external crate): Some(score) exactly when
\* the pattern is a subsequence of the haystack.  The score of the model
\* rewards a match that starts early and runs consecutively.
fuzzy_match(hay, pattern) ==
    LET pos == match_positions(hay, pattern, 1)
    IN  IF pos = << 0 >> THEN None
        ELSE Some(16 * Len(pattern) + 32 - Min(32, pos[1])
                  - Min(16, pos[Len(pos)] - pos[1] + 1 - Len(pattern)))

\* The (score, index) pairs of the hosts that match, in registry order,
\* without the host named exclude.
RECURSIVE scored_hosts(_, _, _, _)
scored_hosts(cfg, pattern, exclude, i) ==
    IF i > Len(cfg.hosts) THEN << >>
    ELSE LET host == cfg.hosts[i]
             m == fuzzy_match(haystack(host), pattern)
             rest == scored_hosts(cfg, pattern, exclude, i + 1)
         IN  IF exclude = Some(host.name) \/ ~IsSome(m) THEN rest
             ELSE << << Unwrap(m), i - 1 >> >> \o rest

\* Insert one pair into a list sorted by descending score, after the pairs
\* that compare equal or greater (a stable sort).
RECURSIVE insert_by_score(_, _)
insert_by_score(sorted, pair) ==
    IF sorted = << >> THEN << pair >>
    ELSE IF sorted[1][1] >= pair[1]
    THEN << sorted[1] >> \o insert_by_score(Tail(sorted), pair)
    ELSE << pair >> \o sorted

\* scored.sort_by(|a, b| b.0.cmp(&a.0))
RECURSIVE sort_by_score(_)
sort_by_score(scored) ==
    IF scored = << >> THEN << >>
    ELSE insert_by_score(sort_by_score(SubSeq(scored, 1, Len(scored) - 1)),
                         scored[Len(scored)])

\* The ranked index list both rebuild_filter functions compute.
ranked_indices(cfg, pattern, exclude) ==
    IF pattern = << >>
    THEN LET keep == SelectSeq([ i \in 1..Len(cfg.hosts) |-> i ],
                               LAMBDA i : exclude # Some(cfg.hosts[i].name))
         IN  [ k \in 1..Len(keep) |-> keep[k] - 1 ]
    ELSE LET sorted == sort_by_score(scored_hosts(cfg, pattern, exclude, 1))
         IN  [ k \in 1..Len(sorted) |-> sorted[k][2] ]

\* usize::saturating_sub
saturating_sub(a, b) == IF a >= b THEN a - b ELSE 0

\* A mutant of clamp_selected: the selection is left where it was.
clamp_selected_keeps_index(sel, indices) == sel

\* The clamp at the end of App::rebuild_filter.
clamp_selected(sel, indices) ==
    IF sel >= Len(indices) THEN saturating_sub(Len(indices), 1) ELSE sel

-----------------------------------------------------------------------------
(* The Form Editor: FormState and BastionDropdownState.                     *)

\* A key event: code is "Char", "Enter", "Esc", "Backspace", "Tab",
\* "BackTab", "Up", "Down", "Left" or "Right"; ch is the character of a
\* Char; mods is "", "SHIFT" or "CONTROL".
Key(code, ch, mods) == [ code |-> code, ch |-> ch, mods |-> mods ]

FormField(label, value) ==
    [ label |-> label, value |-> value, cursor |-> Len(value) ]

\* BastionDropdownState::rebuild_filter
dropdown_rebuild_filter(dd, cfg) ==
    LET indices == ranked_indices(cfg, dd.search_filter, dd.exclude_host)
    IN  [dd EXCEPT !.filtered_indices = indices,
                   !.selected = clamp_selected(0, indices)]

\* BastionDropdownState::new
dropdown_new(cfg, exclude) ==
    dropdown_rebuild_filter(
        [ search_filter |-> << >>, filtered_indices |-> << >>, selected |-> 0,
          exclude_host |-> exclude ], cfg)

blank_host ==
    Host(<< >>, << >>, None, None, None, << >>, << >>, None, None, None)

\* FormState::new
form_new(kind, host, cfg, env) ==
    LET h == IF IsSome(host) THEN Unwrap(host) ELSE blank_host
        cmd == IF kind = "Add"
               THEN << FormField("SSH command",
                                 IF h.address = << >> THEN << >>
                                 ELSE command_preview(h, cfg, None, None, env)) >>
               ELSE << >>
        opt(o) == IF IsSome(o) THEN Unwrap(o) ELSE << >>
    IN  [ kind |-> kind,
          fields |-> cmd \o <<
              FormField("Name", h.name),
              FormField("Host / IP", h.address),
              FormField("User", opt(h.user)),
              FormField("Port",
                        IF IsSome(h.port) THEN to_string(Unwrap(h.port))
                        ELSE << >>),
              FormField("Key path", opt(h.key_path)),
              FormField("Bastion", opt(h.bastion)),
              FormField("Tags (comma)", Join(h.tags, << "," >>)),
              FormField("Options", Join(h.options, << " " >>)),
              FormField("Remote command", opt(h.remote_command)),
              FormField("Description", opt(h.description)) >>,
          index |-> 0,
          bastion_dropdown |-> None,
          editing_host_name |-> IF IsSome(host) THEN Some(Unwrap(host).name)
                                ELSE None ]

bastion_field_idx(f) == IF f.kind = "Add" THEN 6 ELSE 5

\* The field at a 0-based index.
field_at(f, idx) == f.fields[idx + 1]

\* A mutant of set_field_value: the cursor of the field is left where it
\* was.
set_field_value_keeps_cursor(f, label, value) ==
    IF \E k \in 1..Len(f.fields) : f.fields[k].label = label
    THEN LET k == CHOOSE k \in 1..Len(f.fields) :
                     /\ f.fields[k].label = label
                     /\ \A j \in 1..(k - 1) : f.fields[j].label # label
         IN  [f EXCEPT !.fields[k].value = value]
    ELSE f

\* FormState::set_field_value: the first field with that label.
set_field_value(f, label, value) ==
    IF \E k \in 1..Len(f.fields) : f.fields[k].label = label
    THEN LET k == CHOOSE k \in 1..Len(f.fields) :
                     /\ f.fields[k].label = label
                     /\ \A j \in 1..(k - 1) : f.fields[j].label # label
         IN  [f EXCEPT !.fields[k].value = value,
                       !.fields[k].cursor = Len(value)]
    ELSE f

\* A mutant of apply_spec: Name is filled only once the parse has an
\* address.
apply_spec_waits_for_address(f, spec) ==
    LET opt(o) == IF IsSome(o) THEN Unwrap(o) ELSE << >>
        nameBlank ==
            \E k \in 1..Len(f.fields) :
                /\ f.fields[k].label = "Name"
                /\ Trim(f.fields[k].value) = << >>
        f1 == set_field_value(f, "Host / IP", spec.address)
        f2 == IF IsSome(spec.user)
              THEN LET g == set_field_value(f1, "User", Unwrap(spec.user))
                   IN  IF nameBlank /\ spec.address # << >>
                       THEN set_field_value(g, "Name",
                                Unwrap(spec.user) \o << "@" >> \o spec.address)
                       ELSE g
              ELSE set_field_value(f1, "User", << >>)
        f3 == set_field_value(f2, "Port",
                  IF IsSome(spec.port) THEN to_string(Unwrap(spec.port))
                  ELSE << >>)
        f4 == set_field_value(f3, "Key path", opt(spec.key_path))
        f5 == set_field_value(f4, "Options", Join(spec.options, << " " >>))
        f6 == set_field_value(f5, "Bastion", opt(spec.bastion))
    IN  set_field_value(f6, "Remote command", opt(spec.remote_command))

\* A mutant of apply_spec: the Name field is written whenever the command
\* names a user, blank or not.
apply_spec_overwrites_name(f, spec) ==
    LET opt(o) == IF IsSome(o) THEN Unwrap(o) ELSE << >>
        f1 == set_field_value(f, "Host / IP", spec.address)
        f2 == IF IsSome(spec.user)
              THEN set_field_value(
                       set_field_value(f1, "User", Unwrap(spec.user)), "Name",
                       Unwrap(spec.user) \o << "@" >> \o spec.address)
              ELSE set_field_value(f1, "User", << >>)
        f3 == set_field_value(f2, "Port",
                  IF IsSome(spec.port) THEN to_string(Unwrap(spec.port))
                  ELSE << >>)
        f4 == set_field_value(f3, "Key path", opt(spec.key_path))
        f5 == set_field_value(f4, "Options", Join(spec.options, << " " >>))
        f6 == set_field_value(f5, "Bastion", opt(spec.bastion))
    IN  set_field_value(f6, "Remote command", opt(spec.remote_command))

\* FormState::apply_spec
apply_spec(f, spec) ==
    LET opt(o) == IF IsSome(o) THEN Unwrap(o) ELSE << >>
        nameBlank ==
            \E k \in 1..Len(f.fields) :
                /\ f.fields[k].label = "Name"
                /\ Trim(f.fields[k].value) = << >>
        f1 == set_field_value(f, "Host / IP", spec.address)
        f2 == IF IsSome(spec.user)
              THEN LET g == set_field_value(f1, "User", Unwrap(spec.user))
                   IN  IF nameBlank
                       THEN set_field_value(g, "Name",
                                Unwrap(spec.user) \o << "@" >> \o spec.address)
                       ELSE g
              ELSE set_field_value(f1, "User", << >>)
        f3 == set_field_value(f2, "Port",
                  IF IsSome(spec.port) THEN to_string(Unwrap(spec.port))
                  ELSE << >>)
        f4 == set_field_value(f3, "Key path", opt(spec.key_path))
        f5 == set_field_value(f4, "Options", Join(spec.options, << " " >>))
        f6 == set_field_value(f5, "Bastion", opt(spec.bastion))
    IN  set_field_value(f6, "Remote command", opt(spec.remote_command))

\* FormState::next
form_next(f) ==
    LET idx == IF f.index + 1 < Len(f.fields) THEN f.index + 1 ELSE 0
    IN  [f EXCEPT !.index = idx,
                  !.fields[idx + 1].cursor = Len(f.fields[idx + 1].value)]

\* FormState::prev
form_prev(f) ==
    LET idx == IF f.index = 0 THEN saturating_sub(Len(f.fields), 1)
               ELSE f.index - 1
    IN  [f EXCEPT !.index = idx,
                  !.fields[idx + 1].cursor = Len(f.fields[idx + 1].value)]

\* A mutant of open_bastion_dropdown: the picker is built without the name
\* of the host being edited.
open_bastion_dropdown_unfiltered(f, cfg) ==
    LET dd == dropdown_new(cfg, None)
        synced == [dd EXCEPT
                      !.search_filter = field_at(f, bastion_field_idx(f)).value]
    IN  [f EXCEPT !.bastion_dropdown = Some(dropdown_rebuild_filter(synced, cfg))]

\* FormState::open_bastion_dropdown
open_bastion_dropdown(f, cfg) ==
    LET dd == dropdown_new(cfg, f.editing_host_name)
        synced == [dd EXCEPT
                      !.search_filter = field_at(f, bastion_field_idx(f)).value]
    IN  [f EXCEPT !.bastion_dropdown = Some(dropdown_rebuild_filter(synced, cfg))]

\* The field at idx with c inserted at its cursor.
insert_char(f, idx, c) ==
    [f EXCEPT !.fields[idx + 1].value = InsertAt(@, f.fields[idx + 1].cursor, c),
              !.fields[idx + 1].cursor = @ + 1]

\* The field at idx with the character before its cursor removed.
delete_before_cursor(f, idx) ==
    IF f.fields[idx + 1].cursor > 0
    THEN [f EXCEPT !.fields[idx + 1].value =
                       RemoveAt(@, f.fields[idx + 1].cursor - 1),
                   !.fields[idx + 1].cursor = @ - 1]
    ELSE f

\* The dropdown's search_filter set to the Bastion field's text, and rebuilt.
sync_dropdown(f, cfg) ==
    IF IsSome(f.bastion_dropdown)
    THEN LET dd == [Unwrap(f.bastion_dropdown) EXCEPT
                       !.search_filter = field_at(f, bastion_field_idx(f)).value]
         IN  [f EXCEPT !.bastion_dropdown = Some(dropdown_rebuild_filter(dd, cfg))]
    ELSE f

\* A mutant of dropdown_input: Enter takes the first candidate, not the
\* highlighted one.
dropdown_input_picks_first(f, key, cfg) ==
    LET dd == Unwrap(f.bastion_dropdown)
        bidx == bastion_field_idx(f)
        n == Len(dd.filtered_indices)
    IN  CASE key.code = "Esc" -> [f EXCEPT !.bastion_dropdown = None]
          [] key.code = "Enter" ->
                LET picked ==
                        IF 0 < n /\ dd.filtered_indices[1] < Len(cfg.hosts)
                        THEN LET name == cfg.hosts[
                                     dd.filtered_indices[1] + 1].name
                             IN  [f EXCEPT !.fields[bidx + 1].value = name,
                                           !.fields[bidx + 1].cursor = Len(name)]
                        ELSE f
                IN  [picked EXCEPT !.bastion_dropdown = None]
          [] key.code = "Up" ->
                [f EXCEPT !.bastion_dropdown =
                    Some([dd EXCEPT !.selected =
                        IF dd.selected > 0 THEN dd.selected - 1
                        ELSE saturating_sub(n, 1)])]
          [] key.code = "Down" ->
                [f EXCEPT !.bastion_dropdown =
                    Some([dd EXCEPT !.selected =
                        IF dd.selected + 1 < n THEN dd.selected + 1 ELSE 0])]
          [] key.code = "Backspace" ->
                sync_dropdown(delete_before_cursor(f, bidx), cfg)
          [] key.code = "Char" ->
                IF key.ch = " " /\ key.mods = ""
                THEN [f EXCEPT !.bastion_dropdown = None]
                ELSE IF key.mods = "" \/ key.mods = "SHIFT"
                THEN sync_dropdown(insert_char(f, bidx, key.ch), cfg)
                ELSE f

\* handle_input while the bastion picker is open: the keys it returns on.
dropdown_input(f, key, cfg) ==
    LET dd == Unwrap(f.bastion_dropdown)
        bidx == bastion_field_idx(f)
        n == Len(dd.filtered_indices)
    IN  CASE key.code = "Esc" -> [f EXCEPT !.bastion_dropdown = None]
          [] key.code = "Enter" ->
                LET picked ==
                        IF dd.selected < n
                           /\ dd.filtered_indices[dd.selected + 1] < Len(cfg.hosts)
                        THEN LET name == cfg.hosts[
                                     dd.filtered_indices[dd.selected + 1] + 1].name
                             IN  [f EXCEPT !.fields[bidx + 1].value = name,
                                           !.fields[bidx + 1].cursor = Len(name)]
                        ELSE f
                IN  [picked EXCEPT !.bastion_dropdown = None]
          [] key.code = "Up" ->
                [f EXCEPT !.bastion_dropdown =
                    Some([dd EXCEPT !.selected =
                        IF dd.selected > 0 THEN dd.selected - 1
                        ELSE saturating_sub(n, 1)])]
          [] key.code = "Down" ->
                [f EXCEPT !.bastion_dropdown =
                    Some([dd EXCEPT !.selected =
                        IF dd.selected + 1 < n THEN dd.selected + 1 ELSE 0])]
          [] key.code = "Backspace" ->
                sync_dropdown(delete_before_cursor(f, bidx), cfg)
          [] key.code = "Char" ->
                IF key.ch = " " /\ key.mods = ""
                THEN [f EXCEPT !.bastion_dropdown = None]
                ELSE IF key.mods = "" \/ key.mods = "SHIFT"
                THEN sync_dropdown(insert_char(f, bidx, key.ch), cfg)
                ELSE f

\* The keys the open picker handles itself; the others fall through.
dropdown_handles(key) ==
    key.code \in { "Esc", "Enter", "Up", "Down", "Backspace", "Char" }

\* The sync applied when the command parses: parsed is the parser's result.
sync_parsed(f, parsed) == IF parsed.ok THEN apply_spec(f, parsed.val) ELSE f

\* The sync on the command text, None when it is blank.
sync_text(f, text) ==
    IF IsSome(text) THEN sync_parsed(f, parse_ssh_spec(Unwrap(text))) ELSE f

\* The command-to-fields sync at the end of handle_input.
sync_command(f) ==
    IF f.kind = "Add" /\ f.index = 0 /\ Len(f.fields) > 0
    THEN sync_text(f, non_empty(f.fields[1].value))
    ELSE f

\* The cursor clamp at the end of handle_input.
clamp_cursor(f) ==
    [f EXCEPT !.fields[f.index + 1].cursor =
                  Min(@, Len(f.fields[f.index + 1].value))]

\* A mutant of close_on_leave: the picker stays open.
close_on_leave_keeps_picker(f) == f

\* Leaving the Bastion field closes the picker.
close_on_leave(f) ==
    IF f.index = bastion_field_idx(f) THEN [f EXCEPT !.bastion_dropdown = None]
    ELSE f

\* The match of handle_input: what the key does to the form before the
\* cursor clamp and the command sync.
field_input(f, key, cfg) ==
    CASE key.code = "Tab" -> form_next(close_on_leave(f))
      [] key.code = "BackTab" -> form_prev(close_on_leave(f))
      [] key.code = "Up" -> form_prev(close_on_leave(f))
      [] key.code = "Down" -> form_next(close_on_leave(f))
      [] key.code = "Char" /\ key.ch = " " -> insert_char(f, f.index, " ")
      [] key.code = "Left" ->
           IF field_at(f, f.index).cursor > 0
           THEN [f EXCEPT !.fields[f.index + 1].cursor = @ - 1]
           ELSE f
      [] key.code = "Right" ->
           IF field_at(f, f.index).cursor < Len(field_at(f, f.index).value)
           THEN [f EXCEPT !.fields[f.index + 1].cursor = @ + 1]
           ELSE f
      [] key.code = "Backspace" ->
           IF f.index = bastion_field_idx(f)
           THEN sync_dropdown(delete_before_cursor(f, f.index), cfg)
           ELSE delete_before_cursor(f, f.index)
      [] key.code = "Char" /\ key.ch # " " ->
           IF f.index = bastion_field_idx(f)
           THEN sync_dropdown(insert_char(f, f.index, key.ch), cfg)
           ELSE insert_char(f, f.index, key.ch)
      [] OTHER -> f

\* FormState::handle_input
handle_input(f, key, cfg) ==
    IF f.index = bastion_field_idx(f) /\ IsSome(f.bastion_dropdown)
       /\ dropdown_handles(key)
    THEN dropdown_input(f, key, cfg)
    ELSE IF key.code = "Char" /\ key.ch = " " /\ f.index = bastion_field_idx(f)
    THEN \* Space on the Bastion field only toggles the picker, and returns
         IF IsSome(f.bastion_dropdown)
         THEN [f EXCEPT !.bastion_dropdown = None]
         ELSE open_bastion_dropdown(f, cfg)
    ELSE sync_command(clamp_cursor(field_input(f, key, cfg)))

\* The tags of the Tags field: split on ',', trimmed, empty entries dropped.
parse_tags(text) ==
    LET pieces == SplitOn(text, ",", << >>)
        trimmed == [ k \in 1..Len(pieces) |-> Trim(pieces[k]) ]
    IN  SelectSeq(trimmed, LAMBDA t : t # << >>)

\* Option::or: o when it is Some, else fallback.
or_else(o, fallback) == IF IsSome(o) THEN o ELSE fallback

\* A mutant of build_host_fields: the host is refused only when both the
\* name and the address are empty.
build_host_fields_either_set(fld, spec, port) ==
    IF (IF fld[1] # << >> THEN fld[1]
        ELSE IF fld[2] # << >> THEN fld[2]
        ELSE IF IsSome(spec) THEN Unwrap(spec).address ELSE << >>) = << >>
       /\ (IF fld[2] # << >> THEN fld[2]
           ELSE IF IsSome(spec) THEN Unwrap(spec).address ELSE << >>) = << >>
    THEN Err("name and host cannot be empty", << >>)
    ELSE IF fld[4] # << >> /\ ~IsSome(port)
    THEN Err("port must be numeric", << >>)
    ELSE Ok(Host(
        IF fld[1] # << >> THEN fld[1]
        ELSE IF fld[2] # << >> THEN fld[2]
        ELSE IF IsSome(spec) THEN Unwrap(spec).address ELSE << >>,
        IF fld[2] # << >> THEN fld[2]
        ELSE IF IsSome(spec) THEN Unwrap(spec).address ELSE << >>,
        or_else(non_empty(fld[3]),
                IF IsSome(spec) THEN Unwrap(spec).user ELSE None),
        or_else(IF fld[4] # << >> THEN port ELSE None,
                IF IsSome(spec) THEN Unwrap(spec).port ELSE None),
        or_else(non_empty(fld[5]),
                IF IsSome(spec) THEN Unwrap(spec).key_path ELSE None),
        parse_tags(fld[7]),
        SplitWhitespace(fld[8]),
        non_empty(fld[9]),
        non_empty(fld[6]),
        non_empty(fld[10])))

\* build_host once the command is parsed: fld holds the ten trimmed fields
\* after the command, spec is the parsed command or None, and port is the
\* Port field parsed.
build_host_fields(fld, spec, port) ==
    IF (IF fld[1] # << >> THEN fld[1]
        ELSE IF fld[2] # << >> THEN fld[2]
        ELSE IF IsSome(spec) THEN Unwrap(spec).address ELSE << >>) = << >>
       \/ (IF fld[2] # << >> THEN fld[2]
           ELSE IF IsSome(spec) THEN Unwrap(spec).address ELSE << >>) = << >>
    THEN Err("name and host cannot be empty", << >>)
    ELSE IF fld[4] # << >> /\ ~IsSome(port)
    THEN Err("port must be numeric", << >>)
    ELSE Ok(Host(
        IF fld[1] # << >> THEN fld[1]
        ELSE IF fld[2] # << >> THEN fld[2]
        ELSE Unwrap(spec).address,
        IF fld[2] # << >> THEN fld[2] ELSE Unwrap(spec).address,
        or_else(non_empty(fld[3]),
                IF IsSome(spec) THEN Unwrap(spec).user ELSE None),
        or_else(IF fld[4] # << >> THEN port ELSE None,
                IF IsSome(spec) THEN Unwrap(spec).port ELSE None),
        or_else(non_empty(fld[5]),
                IF IsSome(spec) THEN Unwrap(spec).key_path ELSE None),
        parse_tags(fld[7]),
        SplitWhitespace(fld[8]),
        non_empty(fld[9]),
        non_empty(fld[6]),
        non_empty(fld[10])))

\* build_host on the ten trimmed fields and the parser's result for the
\* command, Ok(<<>>) when the form has no command text.
build_host_parsed(fld, has_cmd, parsed) ==
    IF ~parsed.ok THEN parsed
    ELSE build_host_fields(fld, IF has_cmd THEN Some(parsed.val) ELSE None,
                           ParseU16(fld[4]))

\* build_host on the ten trimmed fields and the command text, None when the
\* form has no command field or it is blank.
build_host_cmd(fld, cmd) ==
    build_host_parsed(fld, IsSome(cmd),
                      IF IsSome(cmd) THEN parse_ssh_spec(Unwrap(cmd))
                      ELSE Ok(<< >>))

\* FormState::build_host: Ok(host) or the error.
build_host(f) ==
    build_host_cmd(
        [ k \in 1..10 |->
            Trim(f.fields[(IF f.kind = "Add" THEN 1 ELSE 0) + k].value) ],
        IF f.kind = "Add" THEN non_empty(f.fields[1].value) ELSE None)

-----------------------------------------------------------------------------
(* The session: App (src/src/app.rs).                                       *)

Status(kind, text, arg) == [ kind |-> kind, text |-> text, arg |-> arg ]
NoStatus == Status("None", "", << >>)

\* The capacity of the history stack.
HistoryCap == 20

\* A mutant of push_history: on overflow the newest snapshot is dropped.
push_history_drop_newest(hist, cfg) ==
    IF Len(hist) + 1 > HistoryCap THEN hist ELSE Append(hist, cfg)

\* A mutant of push_history: the snapshot is pushed twice.
push_history_twice(hist, cfg) == Append(Append(hist, cfg), cfg)

\* App::push_history
push_history(hist, cfg) ==
    LET pushed == Append(hist, cfg)
    IN  IF Len(pushed) > HistoryCap THEN Tail(pushed) ELSE pushed

\* A mutant of current_index: the row of the list is taken for the index
\* into the registry.
current_index_of_row(indices, sel) ==
    IF sel < Len(indices) THEN Some(sel) ELSE None

\* App::current_index
current_index(indices, sel) ==
    IF sel < Len(indices) THEN Some(indices[sel + 1]) ELSE None

\* App::current_host
current_host(cfg, indices, sel) ==
    LET idx == current_index(indices, sel)
    IN  IF IsSome(idx) /\ Unwrap(idx) < Len(cfg.hosts)
        THEN Some(cfg.hosts[Unwrap(idx) + 1])
        ELSE None

\* App::move_selection
move_selection(indices, sel, delta) ==
    IF indices = << >> THEN 0 ELSE (sel + delta) % Len(indices)

\* A mutant of rebuild_filter: the selection goes back to the first row.
rebuild_filter_resets_selection(cfg, text, sel) ==
    LET indices == ranked_indices(cfg, text, None)
    IN  [ filtered_indices |-> indices,
          selected |-> clamp_selected(0, indices) ]

\* App::rebuild_filter: the new filtered_indices and selected.
rebuild_filter(cfg, text, sel) ==
    LET indices == ranked_indices(cfg, text, None)
    IN  [ filtered_indices |-> indices,
          selected |-> clamp_selected(sel, indices) ]

name_taken(cfg, name) == \E k \in 1..Len(cfg.hosts) : cfg.hosts[k].name = name

RECURSIVE unique_name_from(_, _, _)
unique_name_from(cfg, base, i) ==
    LET cand == base \o << "-" >> \o to_string(i)
    IN  IF ~name_taken(cfg, cand) THEN cand
        ELSE unique_name_from(cfg, base, i + 1)

\* A mutant of unique_name: the suffix 2 is taken without a check.
unique_name_suffix_unchecked(cfg, base) ==
    IF ~name_taken(cfg, base) THEN base ELSE base \o << "-", "2" >>

\* App::unique_name
unique_name(cfg, base) ==
    IF ~name_taken(cfg, base) THEN base ELSE unique_name_from(cfg, base, 2)

\* App::find_host_by_spec as Option<0-based index>
find_host_by_spec(cfg, spec) ==
    LET matches(h) ==
            /\ h.address = spec.address
            /\ h.user = spec.user
            /\ h.port = spec.port
            /\ h.options = spec.options
            /\ h.bastion = spec.bastion
            /\ h.remote_command = spec.remote_command
    IN  IF \E k \in 1..Len(cfg.hosts) : matches(cfg.hosts[k])
        THEN Some((CHOOSE k \in 1..Len(cfg.hosts) :
                      /\ matches(cfg.hosts[k])
                      /\ \A j \in 1..(k - 1) : ~matches(cfg.hosts[j])) - 1)
        ELSE None

\* Vec::iter().position as Option<0-based position>
position_of(seq, x) ==
    IF \E k \in 1..Len(seq) : seq[k] = x
    THEN Some((CHOOSE k \in 1..Len(seq) :
                  seq[k] = x /\ \A j \in 1..(k - 1) : seq[j] # x) - 1)
    ELSE None

\* Vec::remove at a 0-based index
remove_host(hosts, idx) ==
    SubSeq(hosts, 1, idx) \o SubSeq(hosts, idx + 2, Len(hosts))

\* A mutant of saved: the registry is not written.
saved_nothing(cfg, saveOk) == store

\* ConfigStore::save: the file afterwards.  A failed save leaves the file
\* as it was.
saved(cfg, saveOk) == IF saveOk THEN cfg ELSE store

\* What the event loop does with the value on_event returned.
loop_position(ret) ==
    IF ret \in { "Quit", "Err", "Panic" } THEN "exited"
    ELSE IF ret = "RunSsh" THEN "run_ssh"
    ELSE "poll"

\* A mutant of connect: the command is built before dry-run is tested, so
\* that a dry run of a host with a broken bastion chain returns the error.
connect_builds_first(cfg, indices, sel, cur_status, extra, env) ==
    LET host == current_host(cfg, indices, sel)
    IN  IF ~IsSome(host)
        THEN [ ret |-> "None", launch |-> << >>,
               status |-> Status("Warn", "No host selected.", << >>) ]
        ELSE
            LET preview == command_preview(Unwrap(host), cfg, cfg.default_key,
                                           extra, env)
                cmd == build_command(Unwrap(host), cfg, cfg.default_key,
                                     extra, env)
            IN  IF ~cmd.ok
                THEN [ ret |-> "Err", launch |-> << >>, status |-> cur_status ]
                ELSE IF dry_run
                THEN [ ret |-> "None", launch |-> << >>,
                       status |-> Status("Info", "Dry-run", preview) ]
                ELSE [ ret |-> "RunSsh", launch |-> cmd.val,
                       status |-> Status("Info", "Connecting with", preview) ]

\* App::connect on the given registry and selection: the status, the value
\* returned and the arguments of the launch directive.
connect(cfg, indices, sel, cur_status, extra, env) ==
    LET host == current_host(cfg, indices, sel)
    IN  IF ~IsSome(host)
        THEN [ ret |-> "None", launch |-> << >>,
               status |-> Status("Warn", "No host selected.", << >>) ]
        ELSE
            LET preview == command_preview(Unwrap(host), cfg, cfg.default_key,
                                           extra, env)
                cmd == build_command(Unwrap(host), cfg, cfg.default_key,
                                     extra, env)
            IN  IF dry_run
                THEN [ ret |-> "None", launch |-> << >>,
                       status |-> Status("Info", "Dry-run", preview) ]
                ELSE IF ~cmd.ok
                THEN [ ret |-> "Err", launch |-> << >>, status |-> cur_status ]
                ELSE [ ret |-> "RunSsh", launch |-> cmd.val,
                       status |-> Status("Info", "Connecting with", preview) ]

-----------------------------------------------------------------------------
(* The event loop and on_key's dispatch.                                    *)

registry_vars == << config, history, store, pre >>
list_vars == << filter, filtered_indices, selected >>
modal_vars == << form, confirm, quick_input, quick_cursor >>
overlay_vars == << show_help, show_about >>

IsCtrlC(key) == key.code = "Char" /\ key.ch = "c" /\ key.mods = "CONTROL"
IsChar(key, c) == key.code = "Char" /\ key.ch = c
\* key.modifiers.is_empty() || key.modifiers == KeyModifiers::SHIFT
IsText(key) == key.code = "Char" /\ key.mods \in { "", "SHIFT" }

\* on_event returns ret (with the launch arguments args); o names what the
\* event did.
Return(ret, args, o) ==
    /\ result' = ret
    /\ launch' = args
    /\ pc' = loop_position(ret)
    /\ op' = o

\* Mode dispatch is reached: no overlay is shown and the key is not the
\* quit accelerator.
Dispatch(m, key) ==
    /\ pc = "poll"
    /\ ~show_about
    /\ ~show_help
    /\ ~IsCtrlC(key)
    /\ mode = m

\* on_key while the About overlay is shown.
AboutKey(key) ==
    /\ pc = "poll"
    /\ show_about
    /\ show_about' = IF key.code = "Esc" \/ IsChar(key, "q") \/ IsChar(key, "a")
                     THEN FALSE ELSE show_about
    /\ Return("None", << >>, "overlay")
    /\ UNCHANGED << mode, status, dry_run, show_help, registry_vars, list_vars,
                    modal_vars >>

\* on_key: Ctrl+C.
QuitAccel(key) ==
    /\ pc = "poll"
    /\ ~show_about
    /\ IsCtrlC(key)
    /\ Return("Quit", << >>, "quit")
    /\ UNCHANGED << mode, status, dry_run, overlay_vars, registry_vars,
                    list_vars, modal_vars >>

\* A mutant of HelpKey: the overlay does not keep the dry-run toggle from
\* the key.
help_key_leaks(key) ==
    /\ pc = "poll"
    /\ ~show_about
    /\ ~IsCtrlC(key)
    /\ show_help
    /\ show_help' = IF key.code = "Esc" \/ IsChar(key, "?") \/ IsChar(key, "h")
                    THEN FALSE ELSE show_help
    /\ dry_run' = IF IsChar(key, "C") THEN ~dry_run ELSE dry_run
    /\ Return("None", << >>, "overlay")
    /\ UNCHANGED << mode, status, show_about, registry_vars, list_vars,
                    modal_vars >>

\* on_key while the Help overlay is shown.
HelpKey(key) ==
    /\ pc = "poll"
    /\ ~show_about
    /\ ~IsCtrlC(key)
    /\ show_help
    /\ show_help' = IF key.code = "Esc" \/ IsChar(key, "?") \/ IsChar(key, "h")
                    THEN FALSE ELSE show_help
    /\ Return("None", << >>, "overlay")
    /\ UNCHANGED << mode, status, dry_run, show_about, registry_vars, list_vars,
                    modal_vars >>

\* run_loop's RunSsh arm: run_ssh sets the status from the executor's result.
RunSsh(ok) ==
    /\ pc = "run_ssh"
    /\ status' = IF ok THEN Status("Info", "ssh session ended", << >>)
                 ELSE Status("Error", "ssh failed", << >>)
    /\ pc' = "poll"
    /\ op' = "run_ssh"
    /\ UNCHANGED << mode, dry_run, overlay_vars, registry_vars, list_vars,
                    modal_vars, result, launch >>

-----------------------------------------------------------------------------
(* handle_normal.                                                           *)

\* The tail of handle_normal: quick_cursor is clamped to the buffer.
normal_tail(input, cursor) ==
    IF IsSome(input) THEN Min(cursor, Len(Unwrap(input))) ELSE 0

NormalQuit(key) ==
    /\ Dispatch("Normal", key)
    /\ IsChar(key, "q")
    /\ Return("Quit", << >>, "quit")
    /\ UNCHANGED << mode, status, dry_run, overlay_vars, registry_vars,
                    list_vars, modal_vars >>

NormalHelp(key) ==
    /\ Dispatch("Normal", key)
    /\ IsChar(key, "?") \/ IsChar(key, "h")
    /\ show_help' = TRUE
    /\ quick_cursor' = normal_tail(quick_input, quick_cursor)
    /\ Return("None", << >>, "overlay")
    /\ UNCHANGED << mode, status, dry_run, show_about, registry_vars, list_vars,
                    form, confirm, quick_input >>

NormalAbout(key) ==
    /\ Dispatch("Normal", key)
    /\ IsChar(key, "a")
    /\ show_about' = TRUE
    /\ quick_cursor' = normal_tail(quick_input, quick_cursor)
    /\ Return("None", << >>, "overlay")
    /\ UNCHANGED << mode, status, dry_run, show_help, registry_vars, list_vars,
                    form, confirm, quick_input >>

NormalSearch(key) ==
    /\ Dispatch("Normal", key)
    /\ IsChar(key, "/")
    /\ mode' = "Search"
    /\ status' = Status("Info", "Search: type to filter, Enter to apply.", << >>)
    /\ quick_cursor' = normal_tail(quick_input, quick_cursor)
    /\ Return("None", << >>, "open_search")
    /\ UNCHANGED << dry_run, overlay_vars, registry_vars, list_vars, form,
                    confirm, quick_input >>

NormalQuickConnect(key) ==
    /\ Dispatch("Normal", key)
    /\ IsChar(key, "g")
    /\ mode' = "QuickConnect"
    /\ quick_input' = Some(<< >>)
    /\ quick_cursor' = normal_tail(Some(<< >>), 0)
    /\ status' = Status("Info", "Quick connect", << >>)
    /\ Return("None", << >>, "open_quick")
    /\ UNCHANGED << dry_run, overlay_vars, registry_vars, list_vars, form,
                    confirm >>

NormalMove(key) ==
    /\ Dispatch("Normal", key)
    /\ \/ /\ IsChar(key, "j") \/ key.code = "Down"
          /\ selected' = move_selection(filtered_indices, selected, 1)
       \/ /\ IsChar(key, "k") \/ key.code = "Up"
          /\ selected' = move_selection(filtered_indices, selected, -1)
    /\ quick_cursor' = normal_tail(quick_input, quick_cursor)
    /\ Return("None", << >>, "move")
    /\ UNCHANGED << mode, status, dry_run, overlay_vars, registry_vars, filter,
                    filtered_indices, form, confirm, quick_input >>

NormalNew(key, env) ==
    /\ Dispatch("Normal", key)
    /\ IsChar(key, "n")
    /\ form' = Some(form_new("Add", None, config, env))
    /\ mode' = "Form"
    /\ status' = Status("Info", "New host", << >>)
    /\ quick_cursor' = normal_tail(quick_input, quick_cursor)
    /\ Return("None", << >>, "open_form")
    /\ UNCHANGED << dry_run, overlay_vars, registry_vars, list_vars, confirm,
                    quick_input >>

\* A mutant of popped: the oldest snapshot is taken.
popped_oldest(hist) == hist[1]

\* Vec::pop in App::undo: the snapshot on top of the stack.
popped(hist) == hist[Len(hist)]

\* App::undo: pop the newest snapshot, replace the registry, save, rebuild.
NormalUndo(key, saveOk) ==
    /\ Dispatch("Normal", key)
    /\ IsChar(key, "u")
    /\ IF history # << >>
       THEN LET prev == popped(history)
                rebuilt == rebuild_filter(prev, filter, selected)
            IN  /\ history' = SubSeq(history, 1, Len(history) - 1)
                /\ config' = prev
                /\ pre' = SubSeq(pre, 1, Len(pre) - 1)
                /\ store' = saved(prev, saveOk)
                /\ IF saveOk
                   THEN /\ filtered_indices' = rebuilt.filtered_indices
                        /\ selected' = rebuilt.selected
                        /\ status' = Status("Info", "Undid last change.", << >>)
                        /\ quick_cursor' = normal_tail(quick_input, quick_cursor)
                        /\ Return("None", << >>, "undo")
                   ELSE /\ Return("Err", << >>, "undo")
                        /\ UNCHANGED << filtered_indices, selected, status,
                                        quick_cursor >>
       ELSE /\ saveOk
            /\ status' = Status("Warn", "Nothing to undo.", << >>)
            /\ quick_cursor' = normal_tail(quick_input, quick_cursor)
            /\ Return("None", << >>, "undo_nothing")
            /\ UNCHANGED << registry_vars, filtered_indices, selected >>
    /\ UNCHANGED << mode, dry_run, overlay_vars, filter, form, confirm,
                    quick_input >>

\* App::duplicate_host on the current host.
NormalDuplicate(key, saveOk) ==
    /\ Dispatch("Normal", key)
    /\ IsChar(key, "y")
    /\ LET cur == current_host(config, filtered_indices, selected)
       IN  IF IsSome(cur)
           THEN LET host == Unwrap(cur)
                    name == unique_name(config, host.name
                                \o << "-", "c", "o", "p", "y" >>)
                    new_host == [host EXCEPT !.name = name]
                    cfg == [config EXCEPT !.hosts = Append(@, new_host)]
                    rebuilt == rebuild_filter(cfg, filter, selected)
                    names == [ k \in 1..Len(rebuilt.filtered_indices) |->
                                 cfg.hosts[rebuilt.filtered_indices[k] + 1].name ]
                    pos == position_of(names, name)
                IN  /\ history' = push_history(history, config)
                    /\ pre' = Append(pre, config)
                    /\ config' = cfg
                    /\ store' = saved(cfg, saveOk)
                    /\ IF saveOk
                       THEN /\ filtered_indices' = rebuilt.filtered_indices
                            /\ selected' = IF IsSome(pos) THEN Unwrap(pos)
                                           ELSE rebuilt.selected
                            /\ status' = Status("Info", "Duplicated host to", name)
                            /\ quick_cursor' =
                                   normal_tail(quick_input, quick_cursor)
                            /\ Return("None", << >>, "duplicate")
                       ELSE /\ Return("Err", << >>, "duplicate")
                            /\ UNCHANGED << filtered_indices, selected, status,
                                            quick_cursor >>
           ELSE /\ saveOk
                /\ quick_cursor' = normal_tail(quick_input, quick_cursor)
                /\ Return("None", << >>, "none")
                /\ UNCHANGED << registry_vars, filtered_indices, selected,
                                status >>
    /\ UNCHANGED << mode, dry_run, overlay_vars, filter, form, confirm,
                    quick_input >>

NormalEdit(key, env) ==
    /\ Dispatch("Normal", key)
    /\ IsChar(key, "e")
    /\ LET cur == current_host(config, filtered_indices, selected)
       IN  IF IsSome(cur)
           THEN /\ form' = Some(form_new("Edit", cur, config, env))
                /\ mode' = "Form"
                /\ UNCHANGED status
           ELSE /\ status' = Status("Warn", "No host selected to edit.", << >>)
                /\ UNCHANGED << form, mode >>
    /\ quick_cursor' = normal_tail(quick_input, quick_cursor)
    /\ Return("None", << >>, "open_form")
    /\ UNCHANGED << dry_run, overlay_vars, registry_vars, list_vars, confirm,
                    quick_input >>

NormalDelete(key) ==
    /\ Dispatch("Normal", key)
    /\ IsChar(key, "d")
    /\ IF IsSome(current_host(config, filtered_indices, selected))
       THEN mode' = "Confirm" /\ confirm' = Some([ kind |-> "Delete",
                                                  extra_cmd |-> << >> ])
       ELSE UNCHANGED << mode, confirm >>
    /\ quick_cursor' = normal_tail(quick_input, quick_cursor)
    /\ Return("None", << >>, "open_confirm")
    /\ UNCHANGED << status, dry_run, overlay_vars, registry_vars, list_vars,
                    form, quick_input >>

NormalConnectPrompt(key) ==
    /\ Dispatch("Normal", key)
    /\ IsChar(key, "c")
    /\ IF IsSome(current_host(config, filtered_indices, selected))
       THEN mode' = "Confirm" /\ confirm' = Some([ kind |-> "Connect",
                                                  extra_cmd |-> << >> ])
       ELSE UNCHANGED << mode, confirm >>
    /\ quick_cursor' = normal_tail(quick_input, quick_cursor)
    /\ Return("None", << >>, "open_confirm")
    /\ UNCHANGED << status, dry_run, overlay_vars, registry_vars, list_vars,
                    form, quick_input >>

NormalEnter(key, env) ==
    /\ Dispatch("Normal", key)
    /\ key.code = "Enter"
    /\ IF IsSome(current_host(config, filtered_indices, selected))
       THEN LET c == connect(config, filtered_indices, selected, status, None,
                             env)
            IN  /\ status' = c.status
                /\ Return(c.ret, c.launch, "connect")
                /\ UNCHANGED quick_cursor
       ELSE /\ quick_cursor' = normal_tail(quick_input, quick_cursor)
            /\ Return("None", << >>, "none")
            /\ UNCHANGED status
    /\ UNCHANGED << mode, dry_run, overlay_vars, registry_vars, list_vars,
                    form, confirm, quick_input >>

\* A mutant of NormalReload: a reload also clears the history stack.
NormalReload_clears_history(key, loadOk) ==
    /\ Dispatch("Normal", key)
    /\ IsChar(key, "r")
    /\ IF loadOk
       THEN LET rebuilt == rebuild_filter(store, filter, selected)
            IN  /\ config' = store
                /\ history' = << >>
                /\ pre' = << >>
                /\ filtered_indices' = rebuilt.filtered_indices
                /\ selected' = rebuilt.selected
                /\ status' = Status("Info", "Reloaded config.", << >>)
                /\ quick_cursor' = normal_tail(quick_input, quick_cursor)
                /\ Return("None", << >>, "reload")
       ELSE /\ Return("Err", << >>, "reload")
            /\ UNCHANGED << config, history, pre, filtered_indices, selected,
                            status, quick_cursor >>
    /\ UNCHANGED << mode, dry_run, overlay_vars, store, filter, form, confirm,
                    quick_input >>

\* App::reload_config
NormalReload(key, loadOk) ==
    /\ Dispatch("Normal", key)
    /\ IsChar(key, "r")
    /\ IF loadOk
       THEN LET rebuilt == rebuild_filter(store, filter, selected)
            IN  /\ config' = store
                /\ filtered_indices' = rebuilt.filtered_indices
                /\ selected' = rebuilt.selected
                /\ status' = Status("Info", "Reloaded config.", << >>)
                /\ quick_cursor' = normal_tail(quick_input, quick_cursor)
                /\ Return("None", << >>, "reload")
       ELSE /\ Return("Err", << >>, "reload")
            /\ UNCHANGED << config, filtered_indices, selected, status,
                            quick_cursor >>
    /\ UNCHANGED << mode, dry_run, overlay_vars, history, store, pre, filter,
                    form, confirm, quick_input >>

NormalToggleDryRun(key) ==
    /\ Dispatch("Normal", key)
    /\ IsChar(key, "C")
    /\ dry_run' = ~dry_run
    /\ status' = Status("Info", "Dry-run toggled",
                        IF ~dry_run THEN << "O", "N" >> ELSE << "O", "F", "F" >>)
    /\ quick_cursor' = normal_tail(quick_input, quick_cursor)
    /\ Return("None", << >>, "toggle_dry_run")
    /\ UNCHANGED << mode, overlay_vars, registry_vars, list_vars, form, confirm,
                    quick_input >>

\* The keys handle_normal has no arm for.
NormalOther(key) ==
    /\ Dispatch("Normal", key)
    /\ ~(key.code = "Char" /\ key.ch \in { "q", "?", "h", "a", "/", "g", "j", "k",
                                           "n", "u", "y", "e", "d", "c", "r", "C" })
    /\ key.code \notin { "Down", "Up", "Enter" }
    /\ quick_cursor' = normal_tail(quick_input, quick_cursor)
    /\ Return("None", << >>, "none")
    /\ UNCHANGED << mode, status, dry_run, overlay_vars, registry_vars,
                    list_vars, form, confirm, quick_input >>

-----------------------------------------------------------------------------
(* handle_search.                                                           *)

SearchKey(key) ==
    /\ Dispatch("Search", key)
    /\ CASE key.code = "Esc" ->
              /\ mode' = "Normal"
              /\ status' = NoStatus
              /\ UNCHANGED list_vars
         [] key.code = "Enter" ->
              /\ mode' = "Normal"
              /\ UNCHANGED << status, list_vars >>
         [] IsText(key) ->
              LET text == Append(filter, key.ch)
                  rebuilt == rebuild_filter(config, text, selected)
              IN  /\ filter' = text
                  /\ filtered_indices' = rebuilt.filtered_indices
                  /\ selected' = rebuilt.selected
                  /\ UNCHANGED << mode, status >>
         [] key.code = "Backspace" ->
              LET text == Pop(filter)
                  rebuilt == rebuild_filter(config, text, selected)
              IN  /\ filter' = text
                  /\ filtered_indices' = rebuilt.filtered_indices
                  /\ selected' = rebuilt.selected
                  /\ UNCHANGED << mode, status >>
         [] OTHER -> UNCHANGED << mode, status, list_vars >>
    /\ Return("None", << >>, "search")
    /\ UNCHANGED << dry_run, overlay_vars, registry_vars, modal_vars >>

-----------------------------------------------------------------------------
(* handle_form and save_host.                                               *)

\* The bastion picker is open on the Bastion field.
picker_open(f) ==
    f.index = bastion_field_idx(f) /\ IsSome(f.bastion_dropdown)

\* save_host's validation_config: the registry as it would be committed.
validation_config(kind, host, idx) ==
    IF kind = "Add" THEN [config EXCEPT !.hosts = Append(@, host)]
    ELSE [config EXCEPT !.hosts[idx + 1] = host]

\* save_host's validation step: validate-all over the candidate registry.
save_host_checked(kind, host, idx) ==
    validate_bastions(validation_config(kind, host, idx))

\* A mutant of submit_failed: the form is closed on an error.
submit_failed_closes_form(e) ==
    [ mode |-> "Normal", form |-> None,
      status |-> Status("Error", e.err, e.arg) ]

\* handle_form's Err arms: the form stays open and the error is the status.
submit_failed(e) ==
    [ mode |-> mode, form |-> form, status |-> Status("Error", e.err, e.arg) ]

\* Esc in Form mode: the form is discarded.
FormEscape(key) ==
    /\ Dispatch("Form", key)
    /\ IsSome(form)
    /\ key.code = "Esc"
    /\ mode' = "Normal"
    /\ form' = None
    /\ Return("None", << >>, "close_form")
    /\ UNCHANGED << status, dry_run, overlay_vars, registry_vars, list_vars,
                    confirm, quick_input, quick_cursor >>

\* Every key handle_form passes to FormState::handle_input: Enter while the
\* picker is open, and the keys other than Esc and Enter.
FormInput(key) ==
    /\ Dispatch("Form", key)
    /\ IsSome(form)
    /\ \/ key.code = "Enter" /\ picker_open(Unwrap(form))
       \/ key.code \notin { "Esc", "Enter" }
    /\ form' = Some(handle_input(Unwrap(form), key, config))
    /\ Return("None", << >>, "form_input")
    /\ UNCHANGED << mode, status, dry_run, overlay_vars, registry_vars,
                    list_vars, confirm, quick_input, quick_cursor >>

\* handle_form's Err arms applied: r is the outcome submit_failed computed.
form_rejected(r, saveOk) ==
    /\ saveOk
    /\ mode' = r.mode
    /\ form' = r.form
    /\ status' = r.status
    /\ Return("None", << >>, "submit_rejected")
    /\ UNCHANGED << registry_vars, list_vars >>

\* save_host after validation passed: push_history, the write into the
\* registry, the save, then the filter rebuild and the status.
save_host_commit(kind, host, cfg, rebuilt, failed, saveOk) ==
    /\ history' = push_history(history, config)
    /\ pre' = Append(pre, config)
    /\ config' = cfg
    /\ store' = saved(cfg, saveOk)
    /\ IF saveOk
       THEN /\ filtered_indices' = rebuilt.filtered_indices
            /\ selected' = rebuilt.selected
            /\ status' = Status("Info",
                                IF kind = "Add" THEN "Added host"
                                ELSE "Updated host", host.name)
            /\ form' = None
            /\ mode' = "Normal"
       ELSE /\ mode' = failed.mode
            /\ form' = failed.form
            /\ status' = failed.status
            /\ UNCHANGED << filtered_indices, selected >>
    /\ Return("None", << >>, IF kind = "Add" THEN "add" ELSE "edit")

\* save_host on the candidate registry cfg with checked the validation result.
save_host_validated(kind, host, cfg, checked, saveOk) ==
    IF ~checked.ok
    THEN form_rejected(submit_failed(checked), saveOk)
    ELSE save_host_commit(kind, host, cfg,
                          rebuild_filter(cfg, filter, selected),
                          submit_failed(Err("save failed", << >>)), saveOk)

\* App::save_host for the host the form built.
save_host(kind, host, idx, saveOk) ==
    IF kind = "Edit" /\ ~IsSome(idx)
    THEN \* save_host returns Ok without a commit
         /\ saveOk
         /\ status' = Status("Warn", "No host selected to edit.", << >>)
         /\ form' = None
         /\ mode' = "Normal"
         /\ Return("None", << >>, "submit_noop")
         /\ UNCHANGED << registry_vars, list_vars >>
    ELSE IF kind = "Edit" /\ Unwrap(idx) >= Len(config.hosts)
    THEN \* validation_config.hosts[idx] is out of bounds
         /\ saveOk
         /\ Return("Panic", << >>, "submit_noop")
         /\ UNCHANGED << mode, form, status, registry_vars, list_vars >>
    ELSE save_host_validated(
             kind, host,
             validation_config(kind, host,
                               IF kind = "Edit" THEN Unwrap(idx) ELSE 0),
             save_host_checked(kind, host,
                               IF kind = "Edit" THEN Unwrap(idx) ELSE 0),
             saveOk)

\* handle_form's Enter arm on the result of build_host.
form_submit(f, built, saveOk) ==
    IF ~built.ok
    THEN form_rejected(submit_failed(built), saveOk)
    ELSE save_host(f.kind, built.val,
                   current_index(filtered_indices, selected), saveOk)

\* Enter in Form mode with the picker closed: build_host, then save_host.
FormSubmit(key, saveOk) ==
    /\ Dispatch("Form", key)
    /\ IsSome(form)
    /\ key.code = "Enter"
    /\ ~picker_open(Unwrap(form))
    /\ form_submit(Unwrap(form), build_host(Unwrap(form)), saveOk)
    /\ UNCHANGED << dry_run, overlay_vars, filter, confirm, quick_input,
                    quick_cursor >>

-----------------------------------------------------------------------------
(* handle_confirm and delete_current.                                       *)

ConfirmCancel(key) ==
    /\ Dispatch("Confirm", key)
    /\ IsSome(confirm)
    /\ \/ key.code = "Esc"
       \/ Unwrap(confirm).kind = "Delete" /\ IsChar(key, "n")
    /\ mode' = "Normal"
    /\ confirm' = None
    /\ Return("None", << >>, "cancel_confirm")
    /\ UNCHANGED << status, dry_run, overlay_vars, registry_vars, list_vars,
                    form, quick_input, quick_cursor >>

\* y or Enter on the delete confirmation: delete_current.
ConfirmDelete(key, saveOk) ==
    /\ Dispatch("Confirm", key)
    /\ IsSome(confirm)
    /\ Unwrap(confirm).kind = "Delete"
    /\ key.code = "Enter" \/ IsChar(key, "y")
    /\ LET idx == current_index(filtered_indices, selected)
       IN  IF ~IsSome(idx)
           THEN /\ saveOk
                /\ mode' = "Normal"
                /\ confirm' = None
                /\ Return("None", << >>, "none")
                /\ UNCHANGED << status, registry_vars, filtered_indices,
                                selected >>
           ELSE IF Unwrap(idx) >= Len(config.hosts)
           THEN \* hosts.remove(idx) is out of bounds
                /\ saveOk
                /\ history' = push_history(history, config)
                /\ pre' = Append(pre, config)
                /\ Return("Panic", << >>, "none")
                /\ UNCHANGED << mode, confirm, status, config, store,
                                filtered_indices, selected >>
           ELSE LET i == Unwrap(idx)
                    cfg == [config EXCEPT !.hosts = remove_host(@, i)]
                    rebuilt == rebuild_filter(cfg, filter, selected)
                IN  /\ history' = push_history(history, config)
                    /\ pre' = Append(pre, config)
                    /\ status' = Status("Warn", "Removed", config.hosts[i + 1].name)
                    /\ config' = cfg
                    /\ store' = saved(cfg, saveOk)
                    /\ IF saveOk
                       THEN /\ filtered_indices' = rebuilt.filtered_indices
                            /\ selected' = clamp_selected(rebuilt.selected,
                                               rebuilt.filtered_indices)
                            /\ mode' = "Normal"
                            /\ confirm' = None
                            /\ Return("None", << >>, "delete")
                       ELSE /\ Return("Err", << >>, "delete")
                            /\ UNCHANGED << filtered_indices, selected, mode,
                                            confirm >>
    /\ UNCHANGED << dry_run, overlay_vars, filter, form, quick_input,
                    quick_cursor >>

\* Enter on the connect confirmation: connect with the typed command as the
\* override.
ConfirmConnect(key, env) ==
    /\ Dispatch("Confirm", key)
    /\ IsSome(confirm)
    /\ Unwrap(confirm).kind = "Connect"
    /\ key.code = "Enter"
    /\ LET extra == non_empty(Unwrap(confirm).extra_cmd)
           c == connect(config, filtered_indices, selected, status, extra, env)
       IN  /\ confirm' = None
           /\ mode' = "Normal"
           /\ status' = c.status
           /\ Return(c.ret, c.launch, "connect")
    /\ UNCHANGED << dry_run, overlay_vars, registry_vars, list_vars, form,
                    quick_input, quick_cursor >>

\* The text keys of the connect confirmation, and the keys without an arm.
ConfirmInput(key) ==
    /\ Dispatch("Confirm", key)
    /\ IsSome(confirm)
    /\ LET c == Unwrap(confirm)
       IN  IF c.kind = "Delete"
           THEN /\ key.code \notin { "Esc", "Enter" }
                /\ ~IsChar(key, "n")
                /\ ~IsChar(key, "y")
                /\ UNCHANGED confirm
           ELSE /\ key.code \notin { "Esc", "Enter" }
                /\ confirm' =
                       IF key.code = "Backspace"
                       THEN Some([c EXCEPT !.extra_cmd = Pop(@)])
                       ELSE IF IsText(key)
                       THEN Some([c EXCEPT !.extra_cmd = Append(@, key.ch)])
                       ELSE confirm
    /\ Return("None", << >>, "confirm_input")
    /\ UNCHANGED << mode, status, dry_run, overlay_vars, registry_vars,
                    list_vars, form, quick_input, quick_cursor >>

-----------------------------------------------------------------------------
(* handle_quickconnect and quick_connect.                                   *)

QuickEscape(key) ==
    /\ Dispatch("QuickConnect", key)
    /\ key.code = "Esc"
    /\ mode' = "Normal"
    /\ quick_input' = None
    /\ quick_cursor' = 0
    /\ Return("None", << >>, "close_quick")
    /\ UNCHANGED << status, dry_run, overlay_vars, registry_vars, list_vars,
                    form, confirm >>

\* The editing keys of the quick-connect buffer, and the keys without an arm.
QuickInput(key) ==
    /\ Dispatch("QuickConnect", key)
    /\ key.code \notin { "Esc", "Enter" }
    /\ IsSome(quick_input)
    /\ LET buf == Unwrap(quick_input)
       IN  CASE key.code = "Backspace" /\ quick_cursor > 0 ->
                  /\ quick_input' = Some(RemoveAt(buf, quick_cursor - 1))
                  /\ quick_cursor' = quick_cursor - 1
             [] IsText(key) ->
                  /\ quick_input' = Some(InsertAt(buf, quick_cursor, key.ch))
                  /\ quick_cursor' = quick_cursor + 1
             [] key.code = "Left" /\ quick_cursor > 0 ->
                  /\ quick_cursor' = quick_cursor - 1
                  /\ UNCHANGED quick_input
             [] key.code = "Right" /\ quick_cursor < Len(buf) ->
                  /\ quick_cursor' = quick_cursor + 1
                  /\ UNCHANGED quick_input
             [] OTHER -> UNCHANGED << quick_input, quick_cursor >>
    /\ Return("None", << >>, "quick_input")
    /\ UNCHANGED << mode, status, dry_run, overlay_vars, registry_vars,
                    list_vars, form, confirm >>

\* A mutant of host_from_spec: the user of the spec is not stored.
host_from_spec_without_user(spec, name) ==
    Host(name, spec.address, None, spec.port, spec.key_path, << >>,
         spec.options, spec.remote_command, spec.bastion, None)

\* The host quick_connect creates from a parsed spec.
host_from_spec(spec, name) ==
    Host(name, spec.address, spec.user, spec.port, spec.key_path, << >>,
         spec.options, spec.remote_command, spec.bastion, None)

\* The base of the generated name: user@address or address.
name_base(spec) ==
    IF IsSome(spec.user) THEN Unwrap(spec.user) \o << "@" >> \o spec.address
    ELSE spec.address

\* Enter in QuickConnect mode on a buffer the parser rejects: the buffer
\* has been taken and the error is returned to the caller.
quick_parse_failed(buf, e) ==
    [ ret |-> "Err", quick_input |-> None, status |-> status ]

\* A mutant of select_index: the selection stays where it was.
select_index_keeps_selection(indices, idx, sel) == sel

\* The position of host index idx in the visible list, else sel.
select_index(indices, idx, sel) ==
    IF IsSome(position_of(indices, idx))
    THEN Unwrap(position_of(indices, idx))
    ELSE sel

\* A mutant of quick_reuse: reusing a host also pushes a snapshot.
quick_reuse_pushes_snapshot(cleared, sel, c, saveOk) ==
    /\ saveOk
    /\ filtered_indices' = cleared.filtered_indices
    /\ selected' = sel
    /\ status' = c.status
    /\ Return(c.ret, c.launch, "quick_reuse")
    /\ history' = push_history(history, config)
    /\ pre' = Append(pre, config)
    /\ UNCHANGED << config, store >>

\* quick_connect on a spec that matches a registered host: select it and
\* connect. c is what connect returned.
quick_reuse(cleared, sel, c, saveOk) ==
    /\ saveOk
    /\ filtered_indices' = cleared.filtered_indices
    /\ selected' = sel
    /\ status' = c.status
    /\ Return(c.ret, c.launch, "quick_reuse")
    /\ UNCHANGED registry_vars

\* quick_connect on a new spec: push_history, append the host, save, select
\* the new host and connect. c is what connect returned.
quick_create(cfg, cleared, rebuilt, sel, c, saveOk) ==
    /\ history' = push_history(history, config)
    /\ pre' = Append(pre, config)
    /\ config' = cfg
    /\ store' = saved(cfg, saveOk)
    /\ IF saveOk
       THEN /\ filtered_indices' = rebuilt.filtered_indices
            /\ selected' = sel
            /\ status' = c.status
            /\ Return(c.ret, c.launch, "quick_create")
       ELSE /\ filtered_indices' = cleared.filtered_indices
            /\ selected' = cleared.selected
            /\ UNCHANGED status
            /\ Return("Err", << >>, "quick_create")

\* The index of the host called name in cfg, 0 when there is none.
index_of_name(cfg, name) ==
    IF IsSome(find_host(cfg, name)) THEN Unwrap(find_host(cfg, name)) - 1
    ELSE 0

\* quick_create once the registry with the new host is known.
quick_create_in(cfg, name, cleared, rebuilt, sel, saveOk, env) ==
    quick_create(cfg, cleared, rebuilt, sel,
                 connect(cfg, rebuilt.filtered_indices, sel,
                         Status("Info", "Added and connecting", name),
                         None, env),
                 saveOk)

\* quick_create once the new host's name is known.
quick_create_named(cfg, name, cleared, rebuilt, saveOk, env) ==
    quick_create_in(cfg, name, cleared, rebuilt,
                    select_index(rebuilt.filtered_indices,
                                 index_of_name(cfg, name), rebuilt.selected),
                    saveOk, env)

\* quick_create with the registry extended by the host made from the spec.
quick_create_host(cfg, name, cleared, saveOk, env) ==
    quick_create_named(cfg, name, cleared,
                       rebuild_filter(cfg, << >>, cleared.selected),
                       saveOk, env)

\* quick_reuse once the selection is known.
quick_reuse_at(cleared, sel, saveOk, env) ==
    quick_reuse(cleared, sel,
                connect(config, cleared.filtered_indices, sel,
                        Status("Info", "Quick connect using existing host.",
                               << >>),
                        None, env),
                saveOk)

\* App::quick_connect: the filter is cleared, then an existing host is
\* reused or a new one is created.
quick_connect(spec, cleared, found, name, saveOk, env) ==
    /\ quick_input' = None
    /\ mode' = "Normal"
    /\ quick_cursor' = 0
    /\ filter' = << >>
    /\ IF IsSome(found)
       THEN quick_reuse_at(cleared,
                           select_index(cleared.filtered_indices,
                                        Unwrap(found), cleared.selected),
                           saveOk, env)
       ELSE quick_create_host(
                [config EXCEPT !.hosts = Append(@, host_from_spec(spec, name))],
                name, cleared, saveOk, env)

\* handle_quickconnect's Enter arm with failed the outcome of a rejected
\* buffer.
quick_rejected(failed, saveOk) ==
    /\ saveOk
    /\ quick_input' = failed.quick_input
    /\ status' = failed.status
    /\ Return(failed.ret, << >>, "quick_rejected")
    /\ UNCHANGED << mode, quick_cursor, registry_vars, list_vars >>

\* handle_quickconnect's Enter arm on the result of parse_ssh_spec.
quick_enter(buf, parsed, saveOk, env) ==
    IF ~parsed.ok
    THEN quick_rejected(quick_parse_failed(buf, parsed), saveOk)
    ELSE quick_connect(parsed.val,
                       rebuild_filter(config, << >>, selected),
                       find_host_by_spec(config, parsed.val),
                       unique_name(config, name_base(parsed.val)),
                       saveOk, env)

\* Enter in QuickConnect mode: parse the buffer, then quick_connect.
QuickEnter(key, saveOk, env) ==
    /\ Dispatch("QuickConnect", key)
    /\ key.code = "Enter"
    /\ IsSome(quick_input)
    /\ quick_enter(Unwrap(quick_input), parse_ssh_spec(Unwrap(quick_input)),
                   saveOk, env)
    /\ UNCHANGED << dry_run, overlay_vars, form, confirm >>

-----------------------------------------------------------------------------
(* The inputs of the model and its specifications.                          *)

\* Key events of the session specification.
Plain(c) == Key("Char", c, "")
Keys ==
    { Key(code, "", "") : code \in { "Enter", "Esc", "Backspace", "Tab" } }
    \cup { Plain(c) : c \in { "q", "?", "a", "/", "g", "j", "n", "u", "y", "e",
                              "d", "c", "r", "C", "b", "x", "@", "-" } }
    \cup { Key("Char", "c", "CONTROL") }

\* Process environments: SSH_AUTH_SOCK set or not, HOME set or not.
Envs == { Env(TRUE, None), Env(FALSE, Some(<< "/", "h" >>)) }

\* s is a prefix of t
IsPrefix(s, t) == Len(s) <= Len(t) /\ SubSeq(t, 1, Len(s)) = s
Typable(text, texts) == \E t \in texts : IsPrefix(text, t)

\* The texts the operator types: into the search filter, the quick-connect
\* buffer, the connect confirmation, and the fields of a form.
SearchTexts == { << "a" >> }
QuickTexts == { << "u", "@" >>, << "b" >> }
ExtraTexts == { << "x" >> }
FieldTexts(label) ==
    CASE label = "SSH command" -> { << "a" >>, << "-" >> }
      [] label = "Port" -> { << "x" >> }
      [] label = "Bastion" -> { << "b" >> }
      [] OTHER -> { }

\* The fields of the form that differ from f's are texts the operator types.
TypedInto(f, g) ==
    \A k \in 1..Len(g.fields) :
        g.fields[k].value # f.fields[k].value =>
            \/ k - 1 # f.index
            \/ Typable(g.fields[k].value, FieldTexts(g.fields[k].label))

\* The registries the store holds when the session starts.
HostNamed(name, bastion) ==
    Host(name, name, None, None, None, << >>, << >>, None, bastion, None)
InitialRegistries ==
    { Config(None, << >>),
      Config(None, << HostNamed(<< "a" >>, None),
                      HostNamed(<< "b" >>, Some(<< "a" >>)) >>),
      Config(None, << HostNamed(<< "a" >>,
                          Some(<< "a", "-", "c", "o", "p", "y" >>)) >>) }

\* The bounds on the registries of a run.
Bounded ==
    /\ Len(config.hosts) <= MaxHosts
    /\ Len(pre) <= MaxMutations

\* App::new: the state after construction.
Init ==
    /\ config \in InitialRegistries
    /\ store = config
    /\ mode = "Normal"
    /\ status = Status("Info", "Loaded config.", << >>)
    /\ filter = << >>
    /\ filtered_indices = rebuild_filter(config, << >>, 0).filtered_indices
    /\ selected = 0
    /\ dry_run = FALSE
    /\ form = None
    /\ confirm = None
    /\ quick_input = None
    /\ quick_cursor = 0
    /\ show_help = FALSE
    /\ show_about = FALSE
    /\ history = << >>
    /\ pc = "poll"
    /\ result = "None"
    /\ launch = << >>
    /\ op = "none"
    /\ pre = << >>

Next ==
    \/ \E key \in Keys : AboutKey(key)
    \/ \E key \in Keys : QuitAccel(key)
    \/ \E key \in Keys : HelpKey(key)
    \/ \E ok \in BOOLEAN : RunSsh(ok)
    \/ \E key \in Keys : NormalQuit(key)
    \/ \E key \in Keys : NormalHelp(key)
    \/ \E key \in Keys : NormalAbout(key)
    \/ \E key \in Keys : NormalSearch(key)
    \/ \E key \in Keys : NormalQuickConnect(key)
    \/ \E key \in Keys : NormalMove(key)
    \/ \E key \in Keys, env \in Envs : NormalNew(key, env)
    \/ \E key \in Keys, saveOk \in BOOLEAN : NormalUndo(key, saveOk)
    \/ \E key \in Keys, saveOk \in BOOLEAN :
           NormalDuplicate(key, saveOk) /\ Bounded'
    \/ \E key \in Keys, env \in Envs : NormalEdit(key, env)
    \/ \E key \in Keys : NormalDelete(key)
    \/ \E key \in Keys : NormalConnectPrompt(key)
    \/ \E key \in Keys, env \in Envs : NormalEnter(key, env)
    \/ \E key \in Keys, loadOk \in BOOLEAN : NormalReload(key, loadOk)
    \/ \E key \in Keys : NormalToggleDryRun(key)
    \/ \E key \in Keys : NormalOther(key)
    \/ \E key \in Keys : SearchKey(key) /\ Typable(filter', SearchTexts)
    \/ \E key \in Keys : FormEscape(key)
    \/ \E key \in Keys :
           FormInput(key) /\ TypedInto(Unwrap(form), Unwrap(form'))
    \/ \E key \in Keys, saveOk \in BOOLEAN : FormSubmit(key, saveOk) /\ Bounded'
    \/ \E key \in Keys : ConfirmCancel(key)
    \/ \E key \in Keys, saveOk \in BOOLEAN : ConfirmDelete(key, saveOk) /\ Bounded'
    \/ \E key \in Keys, env \in Envs : ConfirmConnect(key, env)
    \/ \E key \in Keys :
           ConfirmInput(key)
           /\ Typable(Unwrap(confirm').extra_cmd, ExtraTexts)
    \/ \E key \in Keys : QuickEscape(key)
    \/ \E key \in Keys :
           QuickInput(key) /\ Typable(Unwrap(quick_input'), QuickTexts)
    \/ \E key \in Keys, saveOk \in BOOLEAN, env \in Envs :
           QuickEnter(key, saveOk, env) /\ Bounded'

Spec == Init /\ [][Next]_vars


\* Key events of the registry specification: the keys that open, fill and
\* submit the forms, delete, duplicate, quick-connect and undo.
RegistryKeys ==
    { Key(code, "", "") : code \in { "Enter", "Esc", "Backspace" } }
    \cup { Plain(c) : c \in { "g", "j", "n", "u", "y", "e", "d", "a", "b", "x",
                              "@", "-" } }

NextRegistry ==
    \/ \E ok \in BOOLEAN : RunSsh(ok)
    \/ \E key \in RegistryKeys : NormalQuickConnect(key)
    \/ \E key \in RegistryKeys : NormalMove(key)
    \/ \E key \in RegistryKeys, env \in Envs : NormalNew(key, env)
    \/ \E key \in RegistryKeys, saveOk \in BOOLEAN : NormalUndo(key, saveOk)
    \/ \E key \in RegistryKeys, saveOk \in BOOLEAN :
           NormalDuplicate(key, saveOk) /\ Bounded'
    \/ \E key \in RegistryKeys, env \in Envs : NormalEdit(key, env)
    \/ \E key \in RegistryKeys : NormalDelete(key)
    \/ \E key \in RegistryKeys : FormEscape(key)
    \/ \E key \in RegistryKeys :
           FormInput(key) /\ TypedInto(Unwrap(form), Unwrap(form'))
    \/ \E key \in RegistryKeys, saveOk \in BOOLEAN :
           FormSubmit(key, saveOk) /\ Bounded'
    \/ \E key \in RegistryKeys : ConfirmCancel(key)
    \/ \E key \in RegistryKeys, saveOk \in BOOLEAN :
           ConfirmDelete(key, saveOk) /\ Bounded'
    \/ \E key \in RegistryKeys : QuickEscape(key)
    \/ \E key \in RegistryKeys :
           QuickInput(key) /\ Typable(Unwrap(quick_input'), QuickTexts)
    \/ \E key \in RegistryKeys, saveOk \in BOOLEAN, env \in Envs :
           QuickEnter(key, saveOk, env) /\ Bounded'

SpecRegistry == Init /\ [][NextRegistry]_vars


\* Key events of the form specification: the keys that open a form, move
\* between its fields, fill them and submit.
FormKeys ==
    { Key(code, "", "") : code \in { "Enter", "Esc", "Backspace", "Tab" } }
    \cup { Plain(c) : c \in { "j", "n", "e", "a", "b", "x", "-" } }

\* The bounds on the registries of a run of the form specification.
BoundedForm ==
    /\ Len(config.hosts) <= MaxHosts
    /\ Len(pre) <= MaxCommits

NextForm ==
    \/ \E key \in FormKeys : NormalMove(key)
    \/ \E key \in FormKeys, env \in Envs : NormalNew(key, env)
    \/ \E key \in FormKeys, env \in Envs : NormalEdit(key, env)
    \/ \E key \in FormKeys : FormEscape(key)
    \/ \E key \in FormKeys :
           FormInput(key) /\ TypedInto(Unwrap(form), Unwrap(form'))
    \/ \E key \in FormKeys, saveOk \in BOOLEAN :
           FormSubmit(key, saveOk) /\ BoundedForm'

SpecForm == Init /\ [][NextForm]_vars

\* Key events of the history specification: duplicate and undo.
HistoryKeys == { Plain("y"), Plain("u") }

\* The bound on the mutations of a run of the history specification.
BoundedHistory == Len(pre) <= MaxPushes

NextHistory ==
    \/ \E key \in HistoryKeys, saveOk \in BOOLEAN :
           NormalDuplicate(key, saveOk) /\ BoundedHistory'
    \/ \E key \in HistoryKeys, saveOk \in BOOLEAN : NormalUndo(key, saveOk)

SpecHistory == Init /\ [][NextHistory]_vars


\* App::on_key on one key event: the overlays, the quit accelerator, then
\* the handler of the mode.
on_key(key) ==
    \/ AboutKey(key)
    \/ QuitAccel(key)
    \/ HelpKey(key)
    \/ NormalQuit(key)
    \/ NormalHelp(key)
    \/ NormalAbout(key)
    \/ NormalSearch(key)
    \/ NormalQuickConnect(key)
    \/ NormalMove(key)
    \/ \E env \in Envs : NormalNew(key, env)
    \/ \E saveOk \in BOOLEAN : NormalUndo(key, saveOk)
    \/ \E saveOk \in BOOLEAN : NormalDuplicate(key, saveOk)
    \/ \E env \in Envs : NormalEdit(key, env)
    \/ NormalDelete(key)
    \/ NormalConnectPrompt(key)
    \/ \E env \in Envs : NormalEnter(key, env)
    \/ \E loadOk \in BOOLEAN : NormalReload(key, loadOk)
    \/ NormalToggleDryRun(key)
    \/ NormalOther(key)
    \/ SearchKey(key)
    \/ FormEscape(key)
    \/ FormInput(key)
    \/ \E saveOk \in BOOLEAN : FormSubmit(key, saveOk)
    \/ ConfirmCancel(key)
    \/ \E saveOk \in BOOLEAN : ConfirmDelete(key, saveOk)
    \/ \E env \in Envs : ConfirmConnect(key, env)
    \/ ConfirmInput(key)
    \/ QuickEscape(key)
    \/ QuickInput(key)
    \/ \E saveOk \in BOOLEAN, env \in Envs : QuickEnter(key, saveOk, env)

\* The quit accelerator.
CtrlC == Key("Char", "c", "CONTROL")

\* Key events of the overlay specification: the keys that open and close
\* the overlays and the modals, the quit accelerator, and the picker's
\* toggle.
OverlayKeys ==
    { Key(code, "", "") : code \in { "Esc", "Tab" } }
    \cup { Plain(c) : c \in { "a", "?", "h", "q", "/", "g", "n", "d", "C",
                              "j", " " } }
    \cup { CtrlC }

NextOverlay ==
    \/ \E key \in OverlayKeys : AboutKey(key)
    \/ \E key \in OverlayKeys : QuitAccel(key)
    \/ \E key \in OverlayKeys : HelpKey(key)
    \/ \E key \in OverlayKeys : NormalQuit(key)
    \/ \E key \in OverlayKeys : NormalHelp(key)
    \/ \E key \in OverlayKeys : NormalAbout(key)
    \/ \E key \in OverlayKeys : NormalSearch(key)
    \/ \E key \in OverlayKeys : NormalQuickConnect(key)
    \/ \E key \in OverlayKeys : NormalMove(key)
    \/ \E key \in OverlayKeys, env \in Envs : NormalNew(key, env)
    \/ \E key \in OverlayKeys : NormalDelete(key)
    \/ \E key \in OverlayKeys : NormalToggleDryRun(key)
    \/ \E key \in OverlayKeys : NormalOther(key)
    \/ \E key \in OverlayKeys : SearchKey(key) /\ Typable(filter', SearchTexts)
    \/ \E key \in OverlayKeys : FormEscape(key)
    \/ \E key \in OverlayKeys :
           FormInput(key) /\ TypedInto(Unwrap(form), Unwrap(form'))
    \/ \E key \in OverlayKeys : ConfirmCancel(key)
    \/ \E key \in OverlayKeys : ConfirmInput(key)
    \/ \E key \in OverlayKeys : QuickEscape(key)
    \/ \E key \in OverlayKeys :
           QuickInput(key) /\ Typable(Unwrap(quick_input'), QuickTexts)

SpecOverlay == Init /\ [][NextOverlay]_vars

\* The registries a config file can hold when the session starts on it:
\* load_or_init parses the file and validates nothing.  Up to three hosts
\* a, b, c with every choice of bastion among none, a, b, c and the
\* unregistered x, and registries that hold a duplicate's names already.
LoadedNames == << << "a" >>, << "b" >>, << "c" >> >>
LoadedBastions ==
    { None, Some(<< "a" >>), Some(<< "b" >>), Some(<< "c" >>), Some(<< "x" >>) }
ACopy == << "a", "-", "c", "o", "p", "y" >>
LoadedRegistries ==
    { Config(None, [ k \in 1..n |-> HostNamed(LoadedNames[k], bs[k]) ]) :
          n \in 1..Len(LoadedNames),
          bs \in [ 1..Len(LoadedNames) -> LoadedBastions ] }
    \cup { Config(None, << HostNamed(<< "a" >>, None), HostNamed(ACopy, None) >>),
           Config(None, << HostNamed(<< "a" >>, None),
                           HostNamed(ACopy \o << "-", "2" >>, None) >>),
           Config(None, << HostNamed(<< "a" >>, None), HostNamed(ACopy, None),
                           HostNamed(ACopy \o << "-", "2" >>, None) >>) }

\* App::new on a config file of any content.
InitLoaded ==
    /\ config \in LoadedRegistries
    /\ store = config
    /\ mode = "Normal"
    /\ status = Status("Info", "Loaded config.", << >>)
    /\ filter = << >>
    /\ filtered_indices = rebuild_filter(config, << >>, 0).filtered_indices
    /\ selected = 0
    /\ dry_run = FALSE
    /\ form = None
    /\ confirm = None
    /\ quick_input = None
    /\ quick_cursor = 0
    /\ show_help = FALSE
    /\ show_about = FALSE
    /\ history = << >>
    /\ pc = "poll"
    /\ result = "None"
    /\ launch = << >>
    /\ op = "none"
    /\ pre = << >>

\* Key events of the loaded-registry specification: select a host, edit
\* it and submit, duplicate it, quick-connect.
LoadedKeys ==
    { Key(code, "", "") : code \in { "Enter", "Esc" } }
    \cup { Plain(c) : c \in { "j", "e", "y", "g", "b" } }

\* The bound on the runs of the loaded-registry specification: one commit.
BoundedLoaded == Len(pre) <= MaxCommits

NextLoaded ==
    \/ \E key \in LoadedKeys : NormalMove(key)
    \/ \E key \in LoadedKeys, env \in Envs : NormalEdit(key, env)
    \/ \E key \in LoadedKeys, saveOk \in BOOLEAN :
           NormalDuplicate(key, saveOk) /\ BoundedLoaded'
    \/ \E key \in LoadedKeys : NormalQuickConnect(key)
    \/ \E key \in LoadedKeys : FormEscape(key)
    \/ \E key \in LoadedKeys, saveOk \in BOOLEAN :
           FormSubmit(key, saveOk) /\ BoundedLoaded'
    \/ \E key \in LoadedKeys : QuickEscape(key)
    \/ \E key \in LoadedKeys :
           QuickInput(key) /\ Typable(Unwrap(quick_input'), QuickTexts)
    \/ \E key \in LoadedKeys, saveOk \in BOOLEAN, env \in Envs :
           QuickEnter(key, saveOk, env) /\ BoundedLoaded'

SpecLoaded == InitLoaded /\ [][NextLoaded]_vars

\* Key events of the picker specification: open the edit form, move to the
\* Bastion field, toggle the picker, type and erase in it, pick or leave.
PickerKeys ==
    { Key(code, "", "") :
          code \in { "Enter", "Esc", "Backspace", "Tab", "Down" } }
    \cup { Plain(c) : c \in { "j", "e", "b", " " } }

\* The bound on a run of the picker specification: forms are opened and
\* filled until the first commit.
BoundedPicker == pre = << >>

NextPicker ==
    \/ \E key \in PickerKeys : NormalMove(key)
    \/ \E key \in PickerKeys, env \in Envs :
           NormalEdit(key, env) /\ BoundedPicker
    \/ \E key \in PickerKeys : FormEscape(key)
    \/ \E key \in PickerKeys :
           /\ BoundedPicker
           /\ FormInput(key)
           /\ key.code = "Enter" \/ TypedInto(Unwrap(form), Unwrap(form'))
    \/ \E key \in PickerKeys, saveOk \in BOOLEAN :
           FormSubmit(key, saveOk) /\ BoundedLoaded'

SpecPicker == InitLoaded /\ [][NextPicker]_vars

\* The command lines typed into the quick-connect buffer in the parser
\* specification: flags before and after the target, with and without
\* values, and remote commands with dash-prefixed tokens in them.
ParserTexts ==
    { << "-", "v", " ", "h" >>,
      << "-", "v", " ", "u", "@", "h" >>,
      << "h", " ", "-", "p", " ", "2", " ", "u" >>,
      << "h", " ", "-", "v", " ", "-", "p", " ", "2" >>,
      << "h", " ", "-", "o", " ", "b", " ", "u", " ", "-", "v" >>,
      << "h", " ", "-", "J", " ", "b", " ", "-", "i", " ", "c" >>,
      << "h", " ", "u", " ", "-", "p", " ", "2" >>,
      << "h", " ", "-", "v", " ", "u", "@", "b" >>,
      << "h", " ", "-", "p", " ", "-", "v", " ", "u" >>,
      << "-", "p", " ", "2", " ", "h", " ", "-", "v" >>,
      << "s", "s", "h", " ", "h", " ", "-", "p" >>,
      << "h", " ", " ", "u", " ", "b" >> }

\* Key events of the parser specification: the characters of those command
\* lines, Enter and Esc.
ParserKeys ==
    { Key(code, "", "") : code \in { "Enter", "Esc" } }
    \cup { Plain(c) : c \in { " ", "-", "2", "@", "J", "b", "c", "h", "i", "o", "p", "s", "u", "v", "g" } }

NextParser ==
    \/ \E ok \in BOOLEAN : RunSsh(ok)
    \/ \E key \in ParserKeys : NormalQuickConnect(key)
    \/ \E key \in ParserKeys : QuickEscape(key)
    \/ \E key \in ParserKeys :
           QuickInput(key) /\ Typable(Unwrap(quick_input'), ParserTexts)
    \/ \E key \in ParserKeys, saveOk \in BOOLEAN, env \in Envs :
           QuickEnter(key, saveOk, env) /\ BoundedLoaded'

SpecParser == Init /\ [][NextParser]_vars

\* Key events of the connect specification: connect, the connect prompt and
\* its override, the dry-run toggle and the selection.
ConnectKeys ==
    { Key(code, "", "") : code \in { "Enter", "Esc" } }
    \cup { Plain(c) : c \in { "j", "c", "C", "x" } }

NextConnect ==
    \/ \E ok \in BOOLEAN : RunSsh(ok)
    \/ \E key \in ConnectKeys : NormalMove(key)
    \/ \E key \in ConnectKeys : NormalToggleDryRun(key)
    \/ \E key \in ConnectKeys : NormalConnectPrompt(key)
    \/ \E key \in ConnectKeys, env \in Envs : NormalEnter(key, env)
    \/ \E key \in ConnectKeys : ConfirmCancel(key)
    \/ \E key \in ConnectKeys :
           ConfirmInput(key)
           /\ Typable(Unwrap(confirm').extra_cmd, ExtraTexts)
    \/ \E key \in ConnectKeys, env \in Envs : ConfirmConnect(key, env)

SpecConnect == InitLoaded /\ [][NextConnect]_vars

\* Key events of the store specification: those of the registry
\* specification and the manual reload.
StoreKeys == RegistryKeys \cup { Plain("r") }

NextStore ==
    \/ \E ok \in BOOLEAN : RunSsh(ok)
    \/ \E key \in StoreKeys : NormalQuickConnect(key)
    \/ \E key \in StoreKeys : NormalMove(key)
    \/ \E key \in StoreKeys, env \in Envs : NormalNew(key, env)
    \/ \E key \in StoreKeys, saveOk \in BOOLEAN : NormalUndo(key, saveOk)
    \/ \E key \in StoreKeys, saveOk \in BOOLEAN :
           NormalDuplicate(key, saveOk) /\ Bounded'
    \/ \E key \in StoreKeys, env \in Envs : NormalEdit(key, env)
    \/ \E key \in StoreKeys : NormalDelete(key)
    \/ \E key \in StoreKeys, loadOk \in BOOLEAN : NormalReload(key, loadOk)
    \/ \E key \in StoreKeys : FormEscape(key)
    \/ \E key \in StoreKeys :
           FormInput(key) /\ TypedInto(Unwrap(form), Unwrap(form'))
    \/ \E key \in StoreKeys, saveOk \in BOOLEAN :
           FormSubmit(key, saveOk) /\ Bounded'
    \/ \E key \in StoreKeys : ConfirmCancel(key)
    \/ \E key \in StoreKeys, saveOk \in BOOLEAN :
           ConfirmDelete(key, saveOk) /\ Bounded'
    \/ \E key \in StoreKeys : QuickEscape(key)
    \/ \E key \in StoreKeys :
           QuickInput(key) /\ Typable(Unwrap(quick_input'), QuickTexts)
    \/ \E key \in StoreKeys, saveOk \in BOOLEAN, env \in Envs :
           QuickEnter(key, saveOk, env) /\ Bounded'

SpecStore == Init /\ [][NextStore]_vars

\* Registries of three hosts that differ in user, port, key, options and
\* remote command, with every assignment of bastions among them.
ChainHosts(bs) ==
    << Host(<< "a" >>, << "h" >>, Some(<< "u" >>), Some(22), Some(<< "/", "k" >>),
            << >>, << << "-", "v" >>, << "-", "o" >> >>, Some(<< "y" >>), bs[1],
            None),
       Host(<< "b" >>, << "b" >>, None, Some(2), None, << >>, << >>, None,
            bs[2], None),
       Host(<< "c" >>, << "s" >>, Some(<< "u" >>), None, None, << >>,
            << << "-", "v" >> >>, None, bs[3], None) >>
ChainRegistries ==
    { Config(None, ChainHosts(bs)) :
          bs \in [ 1..3 -> { None, Some(<< "a" >>), Some(<< "b" >>),
                            Some(<< "c" >>) } ] }

\* App::new on a config file holding one of those registries.
InitChains ==
    /\ config \in ChainRegistries
    /\ store = config
    /\ mode = "Normal"
    /\ status = Status("Info", "Loaded config.", << >>)
    /\ filter = << >>
    /\ filtered_indices = rebuild_filter(config, << >>, 0).filtered_indices
    /\ selected = 0
    /\ dry_run = FALSE
    /\ form = None
    /\ confirm = None
    /\ quick_input = None
    /\ quick_cursor = 0
    /\ show_help = FALSE
    /\ show_about = FALSE
    /\ history = << >>
    /\ pc = "poll"
    /\ result = "None"
    /\ launch = << >>
    /\ op = "none"
    /\ pre = << >>

SpecChains == InitChains /\ [][NextConnect]_vars

\* The texts the operator types into the fields of a form in the sync
\* specification: a command with a user, a key, a bastion flag and a
\* trailing command, and a command the parser rejects.
SyncTexts(label) ==
    CASE label = "SSH command" ->
             { << "u", "@", "h", " ", "-", "i", " ", "c", " ", "-", "J", " ", "b", " ", "y" >>,
               << "-" >> }
      [] label = "Name" -> { << "a" >> }
      [] label = "Host / IP" -> { << "h" >> }
      [] label = "Bastion" -> { << "b" >> }
      [] label = "Tags (comma)" -> { << "x" >> }
      [] OTHER -> { }

\* The field of f the operator is on holds, in g, a text the operator types.
TypedSync(f, g) ==
    \A k \in 1..Len(g.fields) :
        (g.fields[k].value # f.fields[k].value /\ k - 1 = f.index) =>
            Typable(g.fields[k].value, SyncTexts(g.fields[k].label))

\* Key events of the sync specification: open an Add form, move between
\* its fields, type and delete, submit and cancel.
SyncKeys ==
    { Key(code, "", "") : code \in { "Enter", "Esc", "Backspace", "Tab" } }
    \cup { Plain(c) : c \in { " ", "-", "@", "J", "a", "b", "c", "h", "i", "u",
                              "x", "y", "n" } }

\* The bound on a run of the sync specification: forms are opened and
\* filled until the first commit.
BoundedSync == pre = << >>

NextSync ==
    \/ \E key \in SyncKeys, env \in Envs : NormalNew(key, env) /\ BoundedSync
    \/ \E key \in SyncKeys : FormEscape(key)
    \/ \E key \in SyncKeys :
           /\ BoundedSync
           /\ FormInput(key)
           /\ TypedSync(Unwrap(form), Unwrap(form'))
    \/ \E key \in SyncKeys, saveOk \in BOOLEAN :
           FormSubmit(key, saveOk) /\ BoundedForm'

SpecSync == Init /\ [][NextSync]_vars

\* Key events of the modes specification: the keys that open and close the
\* form, the confirmations, the search and the quick-connect prompt, the
\* keys that move between the fields of a form, and the picker's keys.
ModeKeys ==
    { Key(code, "", "") : code \in { "Enter", "Esc", "Backspace", "Tab",
                                     "BackTab", "Up", "Down" } }
    \cup { Plain(c) : c \in { "n", "e", "d", "c", "g", "/", "j", "y", "b",
                              "x", " " } }

\* The bound on a run of the modes specification: forms are opened and
\* filled until the first commit.
BoundedModes == pre = << >>

NextModes ==
    \/ \E ok \in BOOLEAN : RunSsh(ok)
    \/ \E key \in ModeKeys : NormalSearch(key)
    \/ \E key \in ModeKeys : NormalQuickConnect(key)
    \/ \E key \in ModeKeys : NormalMove(key)
    \/ \E key \in ModeKeys, env \in Envs : NormalNew(key, env) /\ BoundedModes
    \/ \E key \in ModeKeys, env \in Envs : NormalEdit(key, env) /\ BoundedModes
    \/ \E key \in ModeKeys : NormalDelete(key)
    \/ \E key \in ModeKeys : NormalConnectPrompt(key)
    \/ \E key \in ModeKeys : SearchKey(key) /\ Typable(filter', SearchTexts)
    \/ \E key \in ModeKeys : FormEscape(key)
    \/ \E key \in ModeKeys :
           /\ BoundedModes
           /\ FormInput(key)
           /\ key.code = "Enter" \/ TypedInto(Unwrap(form), Unwrap(form'))
    \/ \E key \in ModeKeys, saveOk \in BOOLEAN :
           FormSubmit(key, saveOk) /\ BoundedLoaded'
    \/ \E key \in ModeKeys : ConfirmCancel(key)
    \/ \E key \in ModeKeys, saveOk \in BOOLEAN :
           ConfirmDelete(key, saveOk) /\ BoundedLoaded'
    \/ \E key \in ModeKeys, env \in Envs : ConfirmConnect(key, env)
    \/ \E key \in ModeKeys :
           ConfirmInput(key)
           /\ Typable(Unwrap(confirm').extra_cmd, ExtraTexts)
    \/ \E key \in ModeKeys : QuickEscape(key)
    \/ \E key \in ModeKeys :
           QuickInput(key) /\ Typable(Unwrap(quick_input'), QuickTexts)
    \/ \E key \in ModeKeys, saveOk \in BOOLEAN, env \in Envs :
           QuickEnter(key, saveOk, env) /\ BoundedLoaded'

SpecModes == Init /\ [][NextModes]_vars

\* A registry in which the text b matches two hosts, so that a rebuild of
\* the list on that text leaves more than one row.
ListRegistries ==
    { Config(None, << HostNamed(<< "b" >>, None),
                      HostNamed(<< "a", "b" >>, None) >>) }

\* App::new on a config file holding that registry.
InitList ==
    /\ config \in ListRegistries
    /\ store = config
    /\ mode = "Normal"
    /\ status = Status("Info", "Loaded config.", << >>)
    /\ filter = << >>
    /\ filtered_indices = rebuild_filter(config, << >>, 0).filtered_indices
    /\ selected = 0
    /\ dry_run = FALSE
    /\ form = None
    /\ confirm = None
    /\ quick_input = None
    /\ quick_cursor = 0
    /\ show_help = FALSE
    /\ show_about = FALSE
    /\ history = << >>
    /\ pc = "poll"
    /\ result = "None"
    /\ launch = << >>
    /\ op = "none"
    /\ pre = << >>

\* Key events of the list specification: the selection, the search and its
\* text, the mutations of the registry, and the picker of a form.
ListKeys ==
    { Key(code, "", "") :
          code \in { "Enter", "Esc", "Backspace", "Tab", "Down" } }
    \cup { Plain(c) : c \in { "j", "/", "b", "n", "e", "y", "d", "u", "r",
                              "a", " " } }

\* The texts typed into the search filter in the list specification: one
\* matches both hosts, the other the second host only.
ListSearchTexts == { << "b" >>, << "a" >> }

\* The bound on a run of the list specification: forms are opened and
\* filled until the first commit.
BoundedList == pre = << >>

NextList ==
    \/ \E key \in ListKeys : NormalMove(key)
    \/ \E key \in ListKeys : NormalSearch(key)
    \/ \E key \in ListKeys : SearchKey(key) /\ Typable(filter', ListSearchTexts)
    \/ \E key \in ListKeys, env \in Envs : NormalNew(key, env) /\ BoundedList
    \/ \E key \in ListKeys, env \in Envs : NormalEdit(key, env) /\ BoundedList
    \/ \E key \in ListKeys, saveOk \in BOOLEAN : NormalUndo(key, saveOk)
    \/ \E key \in ListKeys, saveOk \in BOOLEAN :
           NormalDuplicate(key, saveOk) /\ Bounded'
    \/ \E key \in ListKeys : NormalDelete(key)
    \/ \E key \in ListKeys, loadOk \in BOOLEAN : NormalReload(key, loadOk)
    \/ \E key \in ListKeys : FormEscape(key)
    \/ \E key \in ListKeys :
           /\ BoundedList
           /\ FormInput(key)
           /\ key.code = "Enter" \/ TypedInto(Unwrap(form), Unwrap(form'))
    \/ \E key \in ListKeys, saveOk \in BOOLEAN :
           FormSubmit(key, saveOk) /\ Bounded'
    \/ \E key \in ListKeys : ConfirmCancel(key)
    \/ \E key \in ListKeys, saveOk \in BOOLEAN :
           ConfirmDelete(key, saveOk) /\ Bounded'

SpecList == InitList /\ [][NextList]_vars

\* The longest text typed into the command field and the quick-connect
\* buffer in the cursor specification, and into the Bastion field.
MaxTyped == 2
MaxPickerText == 1

\* Key events of the cursor specification: the keys that move the cursor
\* and the active field, the keys that insert and erase, and the picker's
\* toggle, which is typed on the Bastion field only.
CursorKeys ==
    { Key(code, "", "") :
          code \in { "Enter", "Esc", "Backspace", "Tab", "BackTab", "Up",
                     "Down", "Left", "Right" } }
    \cup { Plain(c) : c \in { "n", "e", "g", "j", "u", " " } }

\* The fields of the form that differ from f's are fields the sync or the
\* picker wrote, or short texts typed into the command field and the
\* Bastion field.
TypedCursor(f, g) ==
    \A k \in 1..Len(g.fields) :
        (g.fields[k].value # f.fields[k].value /\ k - 1 = f.index) =>
            \/ IsSome(f.bastion_dropdown) /\ ~IsSome(g.bastion_dropdown)
            \/ /\ g.fields[k].label = "SSH command"
               /\ Len(g.fields[k].value) <= MaxTyped
            \/ /\ g.fields[k].label = "Bastion"
               /\ Len(g.fields[k].value) <= MaxPickerText

NextCursor ==
    \/ \E key \in CursorKeys : NormalMove(key)
    \/ \E key \in CursorKeys : NormalQuickConnect(key)
    \/ \E key \in CursorKeys, env \in Envs : NormalNew(key, env)
    \/ \E key \in CursorKeys, env \in Envs : NormalEdit(key, env)
    \/ \E key \in CursorKeys : FormEscape(key)
    \/ \E key \in CursorKeys :
           /\ FormInput(key)
           /\ TypedCursor(Unwrap(form), Unwrap(form'))
           /\ key.ch = " " =>
                  Unwrap(form).index = bastion_field_idx(Unwrap(form))
    \/ \E key \in CursorKeys : QuickEscape(key)
    \/ \E key \in CursorKeys :
           QuickInput(key) /\ Len(Unwrap(quick_input')) <= MaxTyped

SpecCursor == InitList /\ [][NextCursor]_vars

\* The command lines typed into the quick-connect buffer in the quick
\* specification: one names the second host of the registry, one a host the
\* registry does not hold.
QuickListTexts == { << "a", "b" >>, << "u", "@", "b" >> }

\* Key events of the quick specification: the selection, the search, the
\* dry-run toggle, and the quick-connect prompt and its text.
QuickKeys ==
    { Key(code, "", "") : code \in { "Enter", "Esc" } }
    \cup { Plain(c) : c \in { "j", "/", "C", "g", "a", "b", "u", "@" } }

NextQuick ==
    \/ \E ok \in BOOLEAN : RunSsh(ok)
    \/ \E key \in QuickKeys : NormalMove(key)
    \/ \E key \in QuickKeys : NormalSearch(key)
    \/ \E key \in QuickKeys : SearchKey(key) /\ Typable(filter', ListSearchTexts)
    \/ \E key \in QuickKeys : NormalToggleDryRun(key)
    \/ \E key \in QuickKeys : NormalQuickConnect(key)
    \/ \E key \in QuickKeys : QuickEscape(key)
    \/ \E key \in QuickKeys :
           QuickInput(key) /\ Typable(Unwrap(quick_input'), QuickListTexts)
    \/ \E key \in QuickKeys, saveOk \in BOOLEAN, env \in Envs :
           QuickEnter(key, saveOk, env) /\ Bounded'

SpecQuick == InitList /\ [][NextQuick]_vars

\* Registries of three hosts of which the first and the third carry the
\* same name, with every assignment of bastions among none, the two names
\* and a name no host carries.
WalkRegistries ==
    { Config(None, << HostNamed(<< "a" >>, bs[1]), HostNamed(<< "b" >>, bs[2]),
                      HostNamed(<< "a" >>, bs[3]) >>) :
          bs \in [ 1..3 -> { None, Some(<< "a" >>), Some(<< "b" >>),
                            Some(<< "x" >>) } ] }

\* App::new on a config file holding one of those registries.
InitWalks ==
    /\ config \in WalkRegistries
    /\ store = config
    /\ mode = "Normal"
    /\ status = Status("Info", "Loaded config.", << >>)
    /\ filter = << >>
    /\ filtered_indices = rebuild_filter(config, << >>, 0).filtered_indices
    /\ selected = 0
    /\ dry_run = FALSE
    /\ form = None
    /\ confirm = None
    /\ quick_input = None
    /\ quick_cursor = 0
    /\ show_help = FALSE
    /\ show_about = FALSE
    /\ history = << >>
    /\ pc = "poll"
    /\ result = "None"
    /\ launch = << >>
    /\ op = "none"
    /\ pre = << >>

\* Key events of the walks specification: select a host, connect to it,
\* open its form and submit it.
WalkKeys ==
    { Key(code, "", "") : code \in { "Enter", "Esc" } }
    \cup { Plain(c) : c \in { "j", "e" } }

NextWalks ==
    \/ \E ok \in BOOLEAN : RunSsh(ok)
    \/ \E key \in WalkKeys : NormalMove(key)
    \/ \E key \in WalkKeys, env \in Envs : NormalEnter(key, env)
    \/ \E key \in WalkKeys, env \in Envs : NormalEdit(key, env)
    \/ \E key \in WalkKeys : FormEscape(key)
    \/ \E key \in WalkKeys, saveOk \in BOOLEAN :
           FormSubmit(key, saveOk) /\ BoundedLoaded'

SpecWalks == InitWalks /\ [][NextWalks]_vars


\* Key events of the frame specification: the keys of the events that
\* commit no mutation, the text of the connect confirmation, and y and the
\* quick-connect prompt, which commit a mutation.
FrameKeys ==
    { Key(code, "", "") : code \in { "Enter", "Esc", "Backspace" } }
    \cup { Plain(c) : c \in { "j", "/", "C", "g", "a", "b", "?", "n", "e",
                              "d", "c", "y", "x" } }

\* The fields of the form that differ from f's are fields the sync wrote or
\* one character typed into the command field.
TypedFrame(f, g) ==
    \A k \in 1..Len(g.fields) :
        (g.fields[k].value # f.fields[k].value /\ k - 1 = f.index) =>
            /\ g.fields[k].label = "SSH command"
            /\ Len(g.fields[k].value) <= MaxPickerText

NextFrame ==
    \/ \E key \in FrameKeys : AboutKey(key)
    \/ \E key \in FrameKeys : HelpKey(key)
    \/ \E ok \in BOOLEAN : RunSsh(ok)
    \/ \E key \in FrameKeys : NormalHelp(key)
    \/ \E key \in FrameKeys : NormalAbout(key)
    \/ \E key \in FrameKeys : NormalSearch(key)
    \/ \E key \in FrameKeys : NormalQuickConnect(key)
    \/ \E key \in FrameKeys : NormalMove(key)
    \/ \E key \in FrameKeys, env \in Envs : NormalNew(key, env)
    \/ \E key \in FrameKeys, saveOk \in BOOLEAN :
           NormalDuplicate(key, saveOk) /\ BoundedLoaded'
    \/ \E key \in FrameKeys, env \in Envs : NormalEdit(key, env)
    \/ \E key \in FrameKeys : NormalDelete(key)
    \/ \E key \in FrameKeys : NormalConnectPrompt(key)
    \/ \E key \in FrameKeys, env \in Envs : NormalEnter(key, env)
    \/ \E key \in FrameKeys : NormalToggleDryRun(key)
    \/ \E key \in FrameKeys : SearchKey(key) /\ Typable(filter', ListSearchTexts)
    \/ \E key \in FrameKeys : FormEscape(key)
    \/ \E key \in FrameKeys :
           FormInput(key) /\ TypedFrame(Unwrap(form), Unwrap(form'))
    \/ \E key \in FrameKeys : ConfirmCancel(key)
    \/ \E key \in FrameKeys :
           ConfirmInput(key)
           /\ Typable(Unwrap(confirm').extra_cmd, ExtraTexts)
    \/ \E key \in FrameKeys, env \in Envs : ConfirmConnect(key, env)
    \/ \E key \in FrameKeys : QuickEscape(key)
    \/ \E key \in FrameKeys :
           QuickInput(key) /\ Typable(Unwrap(quick_input'), QuickListTexts)
    \/ \E key \in FrameKeys, saveOk \in BOOLEAN, env \in Envs :
           QuickEnter(key, saveOk, env) /\ BoundedLoaded'

SpecFrame == InitList /\ [][NextFrame]_vars

-----------------------------------------------------------------------------
(* Properties of the registry, the history stack and the error paths.       *)

\* The bastion of the first host called name; None when no host has that
\* name or that host has no bastion.
LookupBastion(cfg, name) ==
    IF \E k \in 1..Len(cfg.hosts) : cfg.hosts[k].name = name
    THEN cfg.hosts[CHOOSE k \in 1..Len(cfg.hosts) :
                       /\ cfg.hosts[k].name = name
                       /\ \A j \in 1..(k - 1) : cfg.hosts[j].name # name].bastion
    ELSE None

\* The k-th name on the bastion chain of host h: its own name, its bastion,
\* the bastion of that host, and so on; None once the chain has ended.
RECURSIVE ChainName(_, _, _)
ChainName(cfg, h, k) ==
    IF k = 0 THEN Some(h.name)
    ELSE IF k = 1 THEN h.bastion
    ELSE IF IsSome(ChainName(cfg, h, k - 1))
    THEN LookupBastion(cfg, Unwrap(ChainName(cfg, h, k - 1)))
    ELSE None

\* A name occurs twice on the bastion chain of h: h is its own bastion, or
\* its chain runs into a cycle.
Cyclic(cfg, h) ==
    \E i, j \in 0..(Len(cfg.hosts) + 1) :
        /\ i < j
        /\ IsSome(ChainName(cfg, h, i))
        /\ ChainName(cfg, h, i) = ChainName(cfg, h, j)

\* No host of the registry is its own bastion or reaches a cycle.
WellFormed(cfg) == \A k \in 1..Len(cfg.hosts) : ~Cyclic(cfg, cfg.hosts[k])

\* What the committing mutations leave in op.
FormCommits == { "add", "edit" }
MutationOps == { "add", "edit", "delete", "duplicate", "quick_create" }
SubmitOps == { "submit_rejected", "submit_noop", "add", "edit" }
QuickEnterOps == { "quick_rejected", "quick_reuse", "quick_create" }

\* s is a suffix of t
IsSuffixOf(s, t) ==
    Len(s) <= Len(t) /\ SubSeq(t, Len(t) - Len(s) + 1, Len(t)) = s

\* C1: from a registry in which no host is its own bastion or reaches a
\* bastion cycle, a form submission that commits (Add or Edit) leaves a
\* registry in which no host is its own bastion or reaches a cycle.
FormCommitKeepsChainsAcyclic ==
    [][ (op' \in FormCommits /\ WellFormed(config)) => WellFormed(config') ]_vars

\* A form submission has just committed a registry in which a host's bastion
\* names a registered host.
FormCommittedBastionChain ==
    /\ op \in FormCommits
    /\ \E k, j \in 1..Len(config.hosts) :
           config.hosts[k].bastion = Some(config.hosts[j].name)

\* C2: in every reachable state no host is its own bastion and no host
\* reaches a cycle by following bastion names.
BastionChainsAcyclic == WellFormed(config)

\* C3: in every reachable state the names of the hosts are pairwise distinct.
NamesUnique ==
    \A k, j \in 1..Len(config.hosts) :
        k # j => config.hosts[k].name # config.hosts[j].name

\* C4: in every reachable state every host has a non-empty name and a
\* non-empty address.
HostsNamedAndAddressed ==
    \A k \in 1..Len(config.hosts) :
        config.hosts[k].name # << >> /\ config.hosts[k].address # << >>

\* C5: an Undo on a non-empty history makes the registry the one it was
\* just before the newest mutation not yet undone, pops that snapshot, and
\* leaves the stack holding the registries before the mutations still to
\* undo; an Undo on an empty history leaves the registry and the stack
\* unchanged and sets the warning "Nothing to undo.".
UndoRestoresPreMutationRegistry ==
    [][ op' \in { "undo", "undo_nothing" } =>
            IF history # << >>
            THEN /\ pre # << >>
                 /\ config' = pre[Len(pre)]
                 /\ history' = SubSeq(history, 1, Len(history) - 1)
                 /\ IsSuffixOf(history', pre')
            ELSE /\ config' = config
                 /\ history' = history
                 /\ status' = Status("Warn", "Nothing to undo.", << >>)
      ]_vars

\* One of two mutations has just been undone: the registry is the one
\* between them, and the snapshot before the first is still on the stack.
UndoneSecondMutation ==
    /\ op = "undo"
    /\ Len(history) = 1
    /\ config # history[1]
    /\ store = config

\* C6: each committing mutation (add, edit, delete, duplicate, quick-connect
\* create) pushes exactly one snapshot, equal to the registry before the
\* change, on top of the snapshots the stack held.
MutationPushesOneSnapshot ==
    [][ op' \in MutationOps =>
            /\ Len(history') = Min(Len(history) + 1, HistoryCap)
            /\ history'[Len(history')] = config
            /\ \A k \in 1..(Len(history') - 1) :
                   history'[k] = history[k + Len(history) + 1 - Len(history')]
      ]_vars

\* A second mutation has just been committed: the stack holds the two
\* registries before the two mutations, and the registry differs from both.
SecondMutationCommitted ==
    /\ op \in MutationOps
    /\ Len(history) = 2
    /\ history[1] # history[2]
    /\ config # history[2]

\* C7: the history stack never holds more than 20 snapshots, and a push
\* onto a full stack evicts the oldest snapshot and keeps the others in
\* order under the new one.
HistoryNeverExceedsCap ==
    /\ [](Len(history) <= HistoryCap)
    /\ [][ (op' \in MutationOps /\ Len(history) = HistoryCap) =>
               history' = Tail(history) \o << config >> ]_vars

\* The push after the 21st has just evicted a snapshot from a full stack.
OldestSnapshotEvicted ==
    /\ op = "duplicate"
    /\ Len(history) = HistoryCap
    /\ Len(pre) = HistoryCap + 2
    /\ history[1] = pre[3]

\* The form's Enter fails: build_host returns an error, or the candidate
\* registry fails the whole-registry bastion validation.
SubmitFails ==
    /\ mode = "Form"
    /\ IsSome(form)
    /\ ~picker_open(Unwrap(form))
    /\ \/ ~build_host(Unwrap(form)).ok
       \/ /\ Unwrap(form).kind = "Add"
          /\ ~validate_bastions(
                 [config EXCEPT !.hosts =
                     Append(@, build_host(Unwrap(form)).val)]).ok
       \/ /\ Unwrap(form).kind = "Edit"
          /\ selected < Len(filtered_indices)
          /\ filtered_indices[selected + 1] < Len(config.hosts)
          /\ ~validate_bastions(
                 [config EXCEPT !.hosts[filtered_indices[selected + 1] + 1] =
                     build_host(Unwrap(form)).val]).ok

\* C8: when Enter in Form mode fails (build_host's error, or a self-reference
\* or cycle found by the validation), the registry and the history are
\* unchanged, the mode stays Form with the form as it was, and the status is
\* an Error.
FailedSubmitKeepsForm ==
    [][ (op' \in SubmitOps /\ SubmitFails) =>
            /\ config' = config
            /\ history' = history
            /\ store' = store
            /\ mode' = "Form"
            /\ form' = form
            /\ status'.kind = "Error"
      ]_vars

\* A submission has just been rejected for a bastion cycle, the form still
\* holding the rejected bastion.
CycleRejectedFormOpen ==
    /\ op = "submit_rejected"
    /\ status.text = "Circular bastion reference detected"
    /\ mode = "Form"
    /\ IsSome(form)
    /\ \E k \in 1..Len(Unwrap(form).fields) :
           /\ Unwrap(form).fields[k].label = "Bastion"
           /\ Unwrap(form).fields[k].value # << >>

\* C9: Enter in QuickConnect mode on a buffer the parser rejects sets an
\* Error status, keeps the mode and the buffer, and the event loop goes on.
QuickParseErrorKeepsBuffer ==
    [][ ( /\ mode = "QuickConnect"
          /\ IsSome(quick_input)
          /\ op' \in QuickEnterOps
          /\ ~parse_ssh_spec(Unwrap(quick_input)).ok ) =>
            /\ pc' = "poll"
            /\ mode' = "QuickConnect"
            /\ quick_input' = quick_input
            /\ status'.kind = "Error"
      ]_vars

\* C10: when the save fails after a committing mutation or an Undo (the
\* store is left behind the registry), an Error status is set and the event
\* loop goes on, the registry keeping the change.
SaveFailureSurfacedAsStatus ==
    [][ (op' \in MutationOps \cup { "undo" } /\ store' # config') =>
            /\ pc' = "poll"
            /\ status'.kind = "Error"
            /\ store' = store
      ]_vars


\* C11: wherever the event loop polls (every mode, the picker open, either
\* overlay shown), the quit accelerator returns the Quit directive, and
\* nothing else.
QuitAcceleratorQuitsEverywhere ==
    pc = "poll" =>
        /\ ENABLED (on_key(CtrlC) /\ result' = "Quit")
        /\ ~ENABLED (on_key(CtrlC) /\ result' # "Quit")

\* C20: while the Help or the About overlay is shown, a key can only close
\* the overlay: the mode, the registry, the history, the filter, the visible
\* list, the selection, the modals and the dry-run flag stay as they are, no
\* overlay opens, and only the quit accelerator returns a directive.
OverlayInterceptsKeys ==
    [][ ((show_help \/ show_about) /\ pc = "poll") =>
            /\ UNCHANGED << mode, config, history, store, filter,
                            filtered_indices, selected, form, confirm,
                            quick_input, dry_run >>
            /\ show_help' => show_help
            /\ show_about' => show_about
            /\ result' \in { "None", "Quit" }
            /\ result' = "Quit" => QuitAccel(CtrlC)
      ]_vars

\* A key has just closed the overlay that was shown over a non-empty host
\* list with dry-run on.
OverlayClosedByKey ==
    /\ op = "overlay"
    /\ ~show_help
    /\ ~show_about
    /\ dry_run
    /\ mode = "Normal"
    /\ config.hosts # << >>


\* Host h matches the spec on address, user, port, options, bastion and
\* remote command.
SpecMatches(h, spec) ==
    /\ h.address = spec.address
    /\ h.user = spec.user
    /\ h.port = spec.port
    /\ h.options = spec.options
    /\ h.bastion = spec.bastion
    /\ h.remote_command = spec.remote_command

\* C12: a quick-connect on a spec no host matches appends exactly one host,
\* and that host matches the spec; a quick-connect on a spec some host
\* matches (as after a first quick-connect with the same spec) reuses it and
\* leaves the registry and the history stack unchanged.
QuickConnectTwiceAddsOne ==
    [][ ( /\ mode = "QuickConnect"
          /\ IsSome(quick_input)
          /\ op' \in { "quick_create", "quick_reuse" } ) =>
            LET spec == parse_ssh_spec(Unwrap(quick_input)).val
            IN  IF \E k \in 1..Len(config.hosts) :
                       SpecMatches(config.hosts[k], spec)
                THEN /\ op' = "quick_reuse"
                     /\ config' = config
                     /\ history' = history
                ELSE /\ op' = "quick_create"
                     /\ Len(config'.hosts) = Len(config.hosts) + 1
                     /\ SubSeq(config'.hosts, 1, Len(config.hosts)) = config.hosts
                     /\ SpecMatches(config'.hosts[Len(config'.hosts)], spec)
      ]_vars

\* A second quick-connect has just reused the host the first one created in
\* an empty registry.
QuickConnectReusedCreatedHost ==
    /\ op = "quick_reuse"
    /\ history = << Config(None, << >>) >>
    /\ pre = history
    /\ Len(config.hosts) = 1
    /\ config.hosts[1].name = << "b" >>


\* Some host of cfg is called name.
Taken(cfg, name) == \E k \in 1..Len(cfg.hosts) : cfg.hosts[k].name = name

\* base-i
Suffixed(base, i) == base \o << "-" >> \o to_string(i)

\* The base of the name a duplicate or a quick-connect creation generates:
\* the current host's name with -copy, or user@address or address of the
\* spec in the quick-connect buffer.
GeneratedBase ==
    IF mode = "QuickConnect"
    THEN LET spec == parse_ssh_spec(Unwrap(quick_input)).val
         IN  IF IsSome(spec.user)
             THEN Unwrap(spec.user) \o << "@" >> \o spec.address
             ELSE spec.address
    ELSE config.hosts[filtered_indices[selected + 1] + 1].name
         \o << "-", "c", "o", "p", "y" >>

\* C13: the name a duplicate or a quick-connect creation gives the new host
\* is a name no host of the registry had: the base itself when the base is
\* unused, otherwise base-i for the lowest i >= 2 with base-i unused.
UniqueNameAvoidsTakenNames ==
    [][ op' \in { "duplicate", "quick_create" } =>
            LET new == config'.hosts[Len(config'.hosts)].name
            IN  /\ ~Taken(config, new)
                /\ IF ~Taken(config, GeneratedBase) THEN new = GeneratedBase
                   ELSE \E i \in 2..(Len(config.hosts) + 2) :
                            /\ new = Suffixed(GeneratedBase, i)
                            /\ \A j \in 2..(i - 1) :
                                   Taken(config, Suffixed(GeneratedBase, j))
      ]_vars

\* A duplicate has just been named a-copy-3, a-copy and a-copy-2 being
\* taken.
DuplicateNamedWithThirdSuffix ==
    /\ op = "duplicate"
    /\ Len(config.hosts) = 4
    /\ config.hosts[4].name = Suffixed(ACopy, 3)


\* The name k lookups after name n: n itself, the bastion of the first host
\* called n, and so on; None once the chain has ended.
RECURSIVE NameAfter(_, _, _)
NameAfter(cfg, n, k) ==
    IF k = 0 THEN Some(n)
    ELSE IF IsSome(NameAfter(cfg, n, k - 1))
    THEN LookupBastion(cfg, Unwrap(NameAfter(cfg, n, k - 1)))
    ELSE None

\* Following bastion names from n leads back to n.
OnCycle(cfg, n) ==
    \E len \in 1..Len(cfg.hosts) : NameAfter(cfg, n, len) = Some(n)

\* The bastion names reachable from some host form a cycle of two or more
\* names.
LongCycle(cfg) ==
    \E k \in 1..Len(cfg.hosts), i \in 0..Len(cfg.hosts) :
        LET n == ChainName(cfg, cfg.hosts[k], i)
        IN  /\ IsSome(n)
            /\ LookupBastion(cfg, Unwrap(n)) # n
            /\ \E len \in 2..Len(cfg.hosts) :
                   NameAfter(cfg, Unwrap(n), len) = n

\* Host h is its own bastion.
SelfBastion(h) == h.bastion = Some(h.name)
HasSelfBastion(cfg) == \E k \in 1..Len(cfg.hosts) : SelfBastion(cfg.hosts[k])

\* The first host in registry order whose bastion chain repeats a name.
FirstCyclic(cfg) ==
    cfg.hosts[CHOOSE k \in 1..Len(cfg.hosts) :
                  /\ Cyclic(cfg, cfg.hosts[k])
                  /\ \A j \in 1..(k - 1) : ~Cyclic(cfg, cfg.hosts[j])]

\* The first name that occurs a second time on the bastion chain of h.
FirstRepeated(cfg, h) ==
    Unwrap(ChainName(cfg, h,
        CHOOSE j \in 1..(Len(cfg.hosts) + 1) :
            /\ \E i \in 0..(j - 1) :
                   /\ IsSome(ChainName(cfg, h, i))
                   /\ ChainName(cfg, h, i) = ChainName(cfg, h, j)
            /\ \A m \in 1..(j - 1) : \A i \in 0..(m - 1) :
                   ~( /\ IsSome(ChainName(cfg, h, i))
                      /\ ChainName(cfg, h, i) = ChainName(cfg, h, m) )))

\* The names of cfg are pairwise distinct.
DistinctNames(cfg) ==
    \A k, j \in 1..Len(cfg.hosts) :
        k # j => cfg.hosts[k].name # cfg.hosts[j].name

\* The form's Enter reaches validate-all: the picker is closed and
\* build_host returns a host.
Validating ==
    /\ mode = "Form"
    /\ IsSome(form)
    /\ ~picker_open(Unwrap(form))
    /\ build_host(Unwrap(form)).ok
    /\ Unwrap(form).kind = "Edit" =>
           /\ selected < Len(filtered_indices)
           /\ filtered_indices[selected + 1] < Len(config.hosts)

\* The registry validate-all is run over: the live registry with the host
\* the form built appended (Add) or put in place of the current one (Edit).
Submitted ==
    IF Unwrap(form).kind = "Add"
    THEN [config EXCEPT !.hosts = Append(@, build_host(Unwrap(form)).val)]
    ELSE [config EXCEPT !.hosts[filtered_indices[selected + 1] + 1] =
                            build_host(Unwrap(form)).val]

\* The submission has been rejected with the self-reference error naming a
\* host that is its own bastion.
SelfReferenceReported(cfg) ==
    /\ status'.kind = "Error"
    /\ status'.text = "cannot use itself as bastion"
    /\ \E k \in 1..Len(cfg.hosts) :
           SelfBastion(cfg.hosts[k]) /\ status'.arg = cfg.hosts[k].name

\* The error validate-all returns on cfg, some chain of which repeats a name:
\* that of the first host in registry order whose chain repeats a name, the
\* self-reference error naming it when it is its own bastion, else the
\* circular-reference error naming the first name repeated on its chain.
FirstErrorReported(cfg) ==
    /\ op' = "submit_rejected"
    /\ config' = config
    /\ history' = history
    /\ status'.kind = "Error"
    /\ IF SelfBastion(FirstCyclic(cfg))
       THEN /\ status'.text = "cannot use itself as bastion"
            /\ status'.arg = FirstCyclic(cfg).name
       ELSE /\ status'.text = "Circular bastion reference detected"
            /\ status'.arg = FirstRepeated(cfg, FirstCyclic(cfg))
            /\ DistinctNames(cfg) => OnCycle(cfg, status'.arg)

\* C14 as stated: whenever some host of the validated registry is its own
\* bastion, validate-all fails with the self-reference error naming such a
\* host.
SelfBastionFailsWithSelfReference ==
    [][ (op' \in SubmitOps /\ Validating /\ HasSelfBastion(Submitted)) =>
            SelfReferenceReported(Submitted) ]_vars

\* C14: whenever some host of the validated registry is its own bastion,
\* validate-all fails, with the self-reference error naming that host when
\* it is the first host in registry order whose chain repeats a name, and
\* with the circular-reference error of an earlier host otherwise.
SelfBastionFailsValidation ==
    [][ (op' \in SubmitOps /\ Validating /\ HasSelfBastion(Submitted)) =>
            FirstErrorReported(Submitted) ]_vars

\* A submission has just been rejected with the self-reference error for
\* the second host of the registry, the first host passing validation.
SelfReferenceRejected ==
    /\ op = "submit_rejected"
    /\ status.text = "cannot use itself as bastion"
    /\ Len(config.hosts) >= 2
    /\ ~Cyclic(config, config.hosts[1])
    /\ SelfBastion(config.hosts[2])
    /\ status.arg = config.hosts[2].name

\* C15 as stated: whenever the names reachable from some host form a cycle
\* of two or more names, validate-all fails with the circular-reference
\* error naming a host on a cycle; a registry none of whose chains repeats a
\* name (chains may end at unregistered names) is accepted.
CycleFailsWithCircularReference ==
    [][ (op' \in SubmitOps /\ Validating) =>
            /\ LongCycle(Submitted) =>
                   /\ status'.kind = "Error"
                   /\ status'.text = "Circular bastion reference detected"
                   /\ OnCycle(Submitted, status'.arg)
            /\ WellFormed(Submitted) => op' \in FormCommits
      ]_vars

\* C15: whenever the names reachable from some host form a cycle of two or
\* more names, validate-all fails: with the circular-reference error naming
\* a host on a cycle, unless the first host in registry order whose chain
\* repeats a name is its own bastion, which the self-reference error then
\* names; a registry none of whose chains repeats a name (chains may end at
\* unregistered names) is accepted.
CycleFailsValidation ==
    [][ (op' \in SubmitOps /\ Validating) =>
            /\ LongCycle(Submitted) => FirstErrorReported(Submitted)
            /\ WellFormed(Submitted) => op' \in FormCommits
      ]_vars

\* A submission has just been rejected for the cycle a -> b -> c -> a.
ThreeCycleRejected ==
    /\ op = "submit_rejected"
    /\ status.text = "Circular bastion reference detected"
    /\ Len(config.hosts) = 3
    /\ config.hosts[1].bastion = Some(config.hosts[2].name)
    /\ config.hosts[2].bastion = Some(config.hosts[3].name)
    /\ config.hosts[3].bastion = Some(config.hosts[1].name)
    /\ status.arg \in { config.hosts[k].name : k \in 1..3 }


\* The bastion picker of the open form, when there is one.
Picker == Unwrap(Unwrap(form).bastion_dropdown)
PickerShown ==
    /\ mode = "Form"
    /\ IsSome(form)
    /\ IsSome(Unwrap(form).bastion_dropdown)

\* C16: while the form edits the current host, every index the bastion
\* picker lists is the index of a registered host whose name is not the
\* edited host's: when the picker opens, and after every rebuild caused
\* by typing or erasing in it.
PickerExcludesEditedHost ==
    (PickerShown /\ Unwrap(form).kind = "Edit") =>
        \A k \in 1..Len(Picker.filtered_indices) :
            /\ Picker.filtered_indices[k] < Len(config.hosts)
            /\ config.hosts[Picker.filtered_indices[k] + 1].name
                   # config.hosts[filtered_indices[selected + 1] + 1].name

\* The picker of the form that edits the first of three hosts has just been
\* rebuilt for the typed text b, and lists the second host only.
PickerRebuiltOnTypedText ==
    /\ PickerShown
    /\ Unwrap(form).kind = "Edit"
    /\ op = "form_input"
    /\ Picker.search_filter = << "b" >>
    /\ Len(config.hosts) = 3
    /\ filtered_indices[selected + 1] = 0
    /\ Picker.filtered_indices = << 1 >>


\* The parser's flags as the claims name them: a dash-prefixed token in a
\* flag position, and whether it takes the token after it as its value.
IsFlagToken(token) == StartsWith(token, "-")
RecognizedFlags == { << "-", "p" >>, << "-", "i" >>, << "-", "J" >> }
\* A token the claims pair with the unrecognised option before it: no
\* leading dash, no '@', and a letter, a digit, ':' or '/' somewhere.
PairedValue(token) ==
    /\ ~IsFlagToken(token)
    /\ \A k \in 1..Len(token) : token[k] # "@"
    /\ \E k \in 1..Len(token) :
           IsAlphanumeric(token[k]) \/ token[k] \in { ":", "/" }
TakesValue(tokens, i) ==
    /\ i < Len(tokens)
    /\ tokens[i] \in RecognizedFlags \/ PairedValue(tokens[i + 1])

\* The first position from i on that is neither a flag nor a flag's value,
\* Len(tokens) + 1 when there is none.
RECURSIVE FirstNonFlag(_, _)
FirstNonFlag(tokens, i) ==
    IF i > Len(tokens) THEN Len(tokens) + 1
    ELSE IF IsFlagToken(tokens[i])
    THEN FirstNonFlag(tokens, IF TakesValue(tokens, i) THEN i + 2 ELSE i + 1)
    ELSE i

\* The positions of the flags from i on and before position stop.
RECURSIVE FlagPositions(_, _, _)
FlagPositions(tokens, i, stop) ==
    IF i >= stop \/ i > Len(tokens) \/ ~IsFlagToken(tokens[i]) THEN { }
    ELSE { i } \cup FlagPositions(
             tokens, IF TakesValue(tokens, i) THEN i + 2 ELSE i + 1, stop)

\* The value of the last flag named flag among the positions, if any has one.
LastValueOf(tokens, positions, flag) ==
    LET with == { k \in positions : tokens[k] = flag /\ k < Len(tokens) }
    IN  IF with = { } THEN None
        ELSE Some(tokens[(CHOOSE k \in with : \A j \in with : j <= k) + 1])

\* What C17 says of the host created from tokens whose target is at position
\* t and whose first token after the target that is neither a flag nor a
\* flag's value is at position r.
FlagsAfterTargetParsed(tokens, t, r, h) ==
    /\ r > Len(tokens) => h.remote_command = None
    /\ r <= Len(tokens) =>
           /\ h.remote_command =
                  Some(Join(SubSeq(tokens, r, Len(tokens)), << " " >>))
           /\ host_from_spec(parse_tokens(SubSeq(tokens, 1, r - 1)).val, h.name)
                  = [h EXCEPT !.remote_command = None]
    /\ \A k \in FlagPositions(tokens, t + 1, r) :
           tokens[k] \notin RecognizedFlags =>
               \E j \in 1..Len(h.options) : h.options[j] = tokens[k]
    /\ LET after == FlagPositions(tokens, t + 1, r)
           port == LastValueOf(tokens, after, << "-", "p" >>)
           key == LastValueOf(tokens, after, << "-", "i" >>)
           jump == LastValueOf(tokens, after, << "-", "J" >>)
       IN  /\ IsSome(port) => h.port = ParseU16(Unwrap(port))
           /\ IsSome(key) => h.key_path = key
           /\ IsSome(jump) => h.bastion = jump

\* C17: in the host quick-connect creates from a typed command line, every
\* flag after the target (port, key, bastion or an unrecognised dash option,
\* with the value it takes) is consumed as a flag and is no part of the
\* remote command; the remote command is absent unless some token after the
\* target is neither a flag nor a flag's value, and from that token on it is
\* the rest of the tokens joined by single spaces, which change no other
\* field of the host.
RemoteCommandStartsAfterFlags ==
    [][ (mode = "QuickConnect" /\ pc = "poll" /\ op' = "quick_create") =>
            LET tokens == SplitWhitespace(Unwrap(quick_input))
                first == IF tokens # << >> /\ tokens[1] = << "s", "s", "h" >>
                         THEN 2 ELSE 1
                t == FirstNonFlag(tokens, first)
            IN  FlagsAfterTargetParsed(tokens, t, FirstNonFlag(tokens, t + 1),
                                       config'.hosts[Len(config'.hosts)])
      ]_vars

\* A host has been created from "h -o b u -v": the option and its value are
\* options and the remote command runs from "u" on, its dash token included.
RemoteCommandKeepsLaterFlag ==
    /\ op = "quick_create"
    /\ config.hosts # << >>
    /\ LET h == config.hosts[Len(config.hosts)]
       IN  /\ h.options = << << "-", "o" >>, << "b" >> >>
           /\ h.remote_command = Some(<< "u", " ", "-", "v" >>)
           /\ h.address = << "h" >>


\* The bastion chain of host h resolves: every name on it is the name of a
\* registered host and none comes back to itself.
ChainResolves(cfg, h) ==
    IsSome(h.bastion) =>
        \A k \in 0..Len(cfg.hosts) :
            LET n == NameAfter(cfg, Unwrap(h.bastion), k)
            IN  IsSome(n) => /\ IsSome(find_host(cfg, Unwrap(n)))
                             /\ ~OnCycle(cfg, Unwrap(n))

\* The override a connect is run with: none from the list, the trimmed text
\* of the connect prompt from the confirmation.
ConnectOverride ==
    IF mode = "Confirm" THEN non_empty(Unwrap(confirm).extra_cmd) ELSE None

\* C18: connect on a selected host with dry-run on sets the status to the
\* rendered command and returns no directive, whatever the host and the
\* override; with dry-run off and a bastion chain that resolves it returns
\* one launch directive.
DryRunNeverLaunches ==
    [][ (pc = "poll" /\ op' = "connect"
         /\ IsSome(current_host(config, filtered_indices, selected))) =>
            LET host == Unwrap(current_host(config, filtered_indices, selected))
            IN  /\ dry_run =>
                       /\ result' = "None"
                       /\ launch' = << >>
                       /\ pc' = "poll"
                       /\ \E env \in Envs :
                              status' = Status("Info", "Dry-run",
                                  command_preview(host, config,
                                      config.default_key, ConnectOverride, env))
                /\ (~dry_run /\ ChainResolves(config, host)) =>
                       /\ result' = "RunSsh"
                       /\ launch' # << >>
                       /\ pc' = "run_ssh"
      ]_vars

\* A dry run of a host whose bastion is not registered, with an override
\* typed at the connect prompt, has shown the command and launched nothing.
DryRunOfBrokenChainShown ==
    /\ op = "connect"
    /\ dry_run
    /\ result = "None"
    /\ launch = << >>
    /\ status.text = "Dry-run"
    /\ Len(status.arg) > 0
    /\ status.arg[Len(status.arg)] = "x"
    /\ IsSome(current_host(config, filtered_indices, selected))
    /\ ~ChainResolves(config,
                      Unwrap(current_host(config, filtered_indices, selected)))


\* The last event met a store failure: the form reported a failed save, or
\* a write or a reload returned its error to the event loop.
StoreFailed ==
    \/ /\ op \in { "add", "edit" }
       /\ status = Status("Error", "save failed", << >>)
    \/ /\ result = "Err"
       /\ op \in { "undo", "reload", "duplicate", "delete" }
    \/ /\ result = "Err"
       /\ op = "quick_create"
       /\ status.text # "Added and connecting"

\* The last event wrote the store or read it.
StoreAccessed ==
    op \in { "add", "edit", "delete", "duplicate", "quick_create", "undo",
             "reload" }

\* C19 as stated: after every event processed without a store failure the
\* registry held by the store equals the live registry.
StoreEqualsRegistryAfterEvent == ~StoreFailed => store = config

\* C19: the store equals the live registry at startup; an event processed
\* without a store failure keeps them equal, and one that writes or reads
\* the store without a failure makes them equal.
StoreEqualsRegistryUnlessDirty ==
    [][ (~StoreFailed' /\ (store = config \/ StoreAccessed')) =>
            store' = config' ]_vars

\* A host has been added by the form and written: the store holds the two
\* hosts of the live registry, the second with the name of the first.
AddedHostWritten ==
    /\ op = "add"
    /\ status.text = "Added host"
    /\ store = config
    /\ Len(config.hosts) = 2
    /\ config.hosts[1].name = config.hosts[2].name
    /\ Len(history) = 2


\* The positions on the chain of names from bastion name b at which a name
\* comes back, and the positions of names that no host carries.
RepeatPositions(cfg, b) ==
    { k \in 1..(Len(cfg.hosts) + 1) :
        /\ IsSome(NameAfter(cfg, b, k))
        /\ \E j \in 0..(k - 1) : NameAfter(cfg, b, j) = NameAfter(cfg, b, k) }
AbsentPositions(cfg, b) ==
    { k \in 0..Len(cfg.hosts) :
        /\ IsSome(NameAfter(cfg, b, k))
        /\ ~IsSome(find_host(cfg, Unwrap(NameAfter(cfg, b, k)))) }
Lowest(S) == CHOOSE k \in S : \A j \in S : k <= j

\* What C21 says of Resolve started on bastion name b with nothing visited.
ResolveOutcome(cfg, b) ==
    LET r == build_bastion_string(cfg, b, << >>)
        again == RepeatPositions(cfg, b)
        absent == AbsentPositions(cfg, b)
    IN  /\ again # { } =>
               r = Err("circular bastion reference detected",
                       Unwrap(NameAfter(cfg, b, Lowest(again))))
        /\ absent # { } =>
               r = Err("bastion host not found",
                       Unwrap(NameAfter(cfg, b, Lowest(absent))))
        /\ (again = { } /\ absent = { }) => r.ok

\* C21: on a connect of a host with a bastion, Resolve started with nothing
\* visited fails with the cycle error naming the first name that comes back
\* when the chain of bastion names repeats a name, fails with the not-found
\* error when the chain reaches a name no host carries, and succeeds
\* otherwise; with dry-run off a chain that fails to resolve gives no launch
\* directive.
ResolveFailsOnCycleOrMissingHost ==
    [][ (pc = "poll" /\ op' = "connect"
         /\ IsSome(current_host(config, filtered_indices, selected))
         /\ IsSome(Unwrap(current_host(config, filtered_indices,
                                       selected)).bastion)) =>
            LET b == Unwrap(Unwrap(current_host(config, filtered_indices,
                                                selected)).bastion)
            IN  /\ ResolveOutcome(config, b)
                /\ (~dry_run /\ ~build_bastion_string(config, b, << >>).ok) =>
                       /\ result' # "RunSsh"
                       /\ launch' = << >>
                       /\ pc' # "run_ssh"
      ]_vars

\* A connect with dry-run off on a host whose bastion chain runs into a
\* cycle of two other hosts has returned the error and launched nothing.
ConnectRefusedOnCycle ==
    /\ op = "connect"
    /\ ~dry_run
    /\ result = "Err"
    /\ launch = << >>
    /\ IsSome(current_host(config, filtered_indices, selected))
    /\ LET h == Unwrap(current_host(config, filtered_indices, selected))
       IN  /\ IsSome(h.bastion)
           /\ RepeatPositions(config, Unwrap(h.bastion)) # { }
           /\ ~OnCycle(config, h.name)
           /\ Unwrap(h.bastion) # h.name

\* A connect with dry-run off on a host whose bastion chain ends at a name
\* no host carries has returned the error and launched nothing.
ConnectRefusedOnMissingHost ==
    /\ op = "connect"
    /\ ~dry_run
    /\ result = "Err"
    /\ launch = << >>
    /\ IsSome(current_host(config, filtered_indices, selected))
    /\ LET h == Unwrap(current_host(config, filtered_indices, selected))
       IN  /\ IsSome(h.bastion)
           /\ AbsentPositions(config, Unwrap(h.bastion)) # { }
           /\ Unwrap(h.bastion) \in { config.hosts[k].name :
                                         k \in 1..Len(config.hosts) }


\* A hop as C22 writes it: [user@]address[:port] from the hop's own fields.
RenderedHop(h) ==
    (IF IsSome(h.user) THEN Unwrap(h.user) \o << "@" >> ELSE << >>)
    \o h.address
    \o (IF IsSome(h.port) THEN << ":" >> \o to_string(Unwrap(h.port))
        ELSE << >>)

\* The number of names on the chain from bastion name b, and the host that
\* carries the k-th of them (b is the first).
ChainHops(cfg, b) ==
    Cardinality({ k \in 0..Len(cfg.hosts) : IsSome(NameAfter(cfg, b, k)) })
HopHost(cfg, b, k) ==
    cfg.hosts[Unwrap(find_host(cfg, Unwrap(NameAfter(cfg, b, k - 1))))]

\* The proxy chain C22 describes: the hops from the farthest to the host's
\* own bastion, comma-joined.
RenderedChain(cfg, b) ==
    Join([ i \in 1..ChainHops(cfg, b) |->
               RenderedHop(HopHost(cfg, b, ChainHops(cfg, b) + 1 - i)) ],
         << "," >>)

\* C22: a launch of a host with a bastion carries, after -J, the hops of
\* the host's bastion chain from the farthest to the host's own bastion,
\* comma-joined, each written [user@]address[:port] from its own fields.
ProxyChainListsFarthestHopFirst ==
    [][ (pc = "poll" /\ op' = "connect" /\ result' = "RunSsh"
         /\ IsSome(current_host(config, filtered_indices, selected))
         /\ IsSome(Unwrap(current_host(config, filtered_indices,
                                       selected)).bastion)) =>
            /\ Len(launch') >= 2
            /\ launch'[1] = << "-", "J" >>
            /\ launch'[2] =
                   RenderedChain(config,
                       Unwrap(Unwrap(current_host(config, filtered_indices,
                                                  selected)).bastion))
      ]_vars

\* Host c has been launched through b, which is reached through a: the
\* chain is a's hop with user and port, then b's hop with its port.
TwoHopChainLaunched ==
    /\ op = "connect"
    /\ result = "RunSsh"
    /\ Len(launch) >= 2
    /\ launch[1] = << "-", "J" >>
    /\ launch[2] = << "u", "@", "h", ":", "2", "2", ",", "b", ":", "2" >>


\* The positions from i on of the tokens that are neither flags nor taken
\* as the value of the flag before them.
RECURSIVE FreeTokens(_, _)
FreeTokens(tokens, i) ==
    IF i > Len(tokens) THEN { }
    ELSE IF IsFlagToken(tokens[i])
    THEN FreeTokens(tokens, IF TakesValue(tokens, i) THEN i + 2 ELSE i + 1)
    ELSE { i } \cup FreeTokens(tokens, i + 1)

\* What C23 says of Enter on the quick-connect buffer holding tokens, the
\* first of them after an optional "ssh" at position first: o is what the
\* event did and hosts the registry after it.
TargetMissingOutcome(tokens, first, o, hosts) ==
    /\ o = "quick_rejected" <=> FreeTokens(tokens, first) = { }
    /\ o = "quick_create" =>
           target_string(hosts[Len(hosts)])
               = tokens[Lowest(FreeTokens(tokens, first))]

\* C23: Enter on the quick-connect buffer fails with "target missing"
\* exactly when, after the optional leading ssh token, every token without a
\* leading dash is taken as the value of a port, key or bastion flag or is
\* paired with the unrecognised option before it; otherwise the first token
\* not so taken is the target of the host.
TargetMissingWhenEveryTokenIsConsumed ==
    [][ (mode = "QuickConnect" /\ pc = "poll" /\ op' \in QuickEnterOps) =>
            LET tokens == SplitWhitespace(Unwrap(quick_input))
            IN  /\ op' = "quick_rejected" => result' = "Err"
                /\ TargetMissingOutcome(
                       tokens,
                       IF tokens # << >> /\ tokens[1] = << "s", "s", "h" >>
                       THEN 2 ELSE 1,
                       op', config'.hosts)
      ]_vars

\* A host has been created from "-v u@h": the token with the '@' is not
\* paired with -v and is the target.
OptionThenUserAtHostAccepted ==
    /\ op = "quick_create"
    /\ config.hosts # << >>
    /\ LET h == config.hosts[Len(config.hosts)]
       IN  /\ h.options = << << "-", "v" >> >>
           /\ h.user = Some(<< "u" >>)
           /\ h.address = << "h" >>
           /\ h.remote_command = None


\* The text of the field of form f with that label.
FieldValue(f, label) ==
    f.fields[CHOOSE k \in 1..Len(f.fields) : f.fields[k].label = label].value
\* The label of the field the operator is on.
ActiveLabel(f) == f.fields[f.index + 1].label

\* C24: in an Add form a key typed while the operator is on another field
\* than Name leaves a non-blank Name as it is, whatever the command field
\* holds; the command-to-fields sync leaves Tags and Description as they
\* are and the command field as the key left it: each of the three changes
\* only by a key typed into it.
SyncKeepsTypedName ==
    [][ (mode = "Form" /\ pc = "poll" /\ op' = "form_input" /\ IsSome(form)
         /\ IsSome(form') /\ Unwrap(form).kind = "Add") =>
            LET f == Unwrap(form)
                g == Unwrap(form')
            IN  /\ (ActiveLabel(f) # "Name"
                    /\ Trim(FieldValue(f, "Name")) # << >>) =>
                       FieldValue(g, "Name") = FieldValue(f, "Name")
                /\ \A label \in { "SSH command", "Tags (comma)", "Description" } :
                       FieldValue(g, label) # FieldValue(f, label) =>
                           ActiveLabel(f) = label
      ]_vars

\* The operator typed the name "a" and tags, then the command: the sync
\* has filled in user, address, key, bastion and remote command from it,
\* and the name and the tags are as typed.
SyncedAroundTypedName ==
    /\ op = "form_input"
    /\ IsSome(form)
    /\ Unwrap(form).kind = "Add"
    /\ Unwrap(form).index = 0
    /\ FieldValue(Unwrap(form), "Name") = << "a" >>
    /\ FieldValue(Unwrap(form), "Tags (comma)") = << "x" >>
    /\ FieldValue(Unwrap(form), "User") = << "u" >>
    /\ FieldValue(Unwrap(form), "Host / IP") = << "h" >>
    /\ FieldValue(Unwrap(form), "Bastion") = << "b" >>
    /\ FieldValue(Unwrap(form), "Remote command") = << "y" >>


\* The value C25 gives an optional field of the host built from an Add
\* form: the text of its own field when that is not blank, else the value
\* parsed from the command field, if the command field is not blank.
OwnFieldOrCommand(f, label, parsed) ==
    IF Trim(FieldValue(f, label)) # << >>
    THEN Some(Trim(FieldValue(f, label)))
    ELSE IF Trim(FieldValue(f, "SSH command")) # << >>
    THEN parsed
    ELSE None

\* C25: the host an Add form commits takes its key path, its bastion and
\* its remote command each from its own field when that field is not blank
\* after trim, and otherwise from the parsed command field.
BlankFieldsFallBackToCommand ==
    [][ (mode = "Form" /\ pc = "poll" /\ op' = "add" /\ IsSome(form)) =>
            LET f == Unwrap(form)
                spec == parse_ssh_spec(Trim(FieldValue(f, "SSH command"))).val
                h == config'.hosts[Len(config'.hosts)]
            IN  /\ h.key_path = OwnFieldOrCommand(f, "Key path", spec.key_path)
                /\ h.bastion = OwnFieldOrCommand(f, "Bastion", spec.bastion)
                /\ h.remote_command =
                       OwnFieldOrCommand(f, "Remote command",
                                         spec.remote_command)
      ]_vars


\* The command field of an Add form holds text the parser rejects.
CommandRejected(f) ==
    /\ Trim(FieldValue(f, "SSH command")) # << >>
    /\ ~parse_ssh_spec(Trim(FieldValue(f, "SSH command"))).ok

\* The address and the name C26 gives the host built from an Add form: the
\* trimmed Host/IP field, else the address parsed from the command field;
\* the trimmed Name field, else that address.
ResultingAddress(f) ==
    IF Trim(FieldValue(f, "Host / IP")) # << >>
    THEN Trim(FieldValue(f, "Host / IP"))
    ELSE IF Trim(FieldValue(f, "SSH command")) # << >> /\ ~CommandRejected(f)
    THEN parse_ssh_spec(Trim(FieldValue(f, "SSH command"))).val.address
    ELSE << >>
ResultingName(f) ==
    IF Trim(FieldValue(f, "Name")) # << >> THEN Trim(FieldValue(f, "Name"))
    ELSE ResultingAddress(f)

NameAndHostEmpty == Status("Error", "name and host cannot be empty", << >>)
TargetMissing == Status("Error", "ssh target missing", << >>)

\* What C26 says of Enter on Add form f: o is what the event did, st the
\* status and hosts the registry after it.
NameAndAddressBuilt(f, o, st, hosts) ==
    /\ o = "add" =>
           /\ hosts[Len(hosts)].address = ResultingAddress(f)
           /\ hosts[Len(hosts)].name = ResultingName(f)
           /\ ResultingAddress(f) # << >>
           /\ ResultingName(f) # << >>
    /\ (ResultingName(f) = << >> \/ ResultingAddress(f) = << >>) =>
           o = "submit_rejected" /\ st = NameAndHostEmpty
    /\ (ResultingName(f) # << >> /\ ResultingAddress(f) # << >>) =>
           st # NameAndHostEmpty

\* C26 as stated: build_host takes the address from the Host/IP field or
\* the parsed command and the name from the Name field or that address,
\* fails with "name and host cannot be empty" when either is empty, and
\* returns no host with an empty name or address.
EmptyNameOrAddressRefused ==
    [][ (mode = "Form" /\ pc = "poll" /\ op' \in SubmitOps /\ IsSome(form)
         /\ Unwrap(form).kind = "Add") =>
            NameAndAddressBuilt(Unwrap(form), op', status', config'.hosts)
      ]_vars

\* C26: when the command field is blank or parses, build_host takes the
\* address from the Host/IP field or the parsed command and the name from
\* the Name field or that address, fails with "name and host cannot be
\* empty" when either is empty, and returns no host with an empty name or
\* address; when the command field holds text the parser rejects, it fails
\* with the parser's error whatever the other fields hold.
EmptyNameOrAddressRefusedOnceParsed ==
    [][ (mode = "Form" /\ pc = "poll" /\ op' \in SubmitOps /\ IsSome(form)
         /\ Unwrap(form).kind = "Add") =>
            IF CommandRejected(Unwrap(form))
            THEN op' = "submit_rejected" /\ status' = TargetMissing
            ELSE NameAndAddressBuilt(Unwrap(form), op', status', config'.hosts)
      ]_vars

\* Enter on an Add form whose command "u@" parses to an empty address, with
\* the Host/IP field blank: the submission is refused.
EmptyAddressRejected ==
    /\ op = "submit_rejected"
    /\ status = NameAndHostEmpty
    /\ IsSome(form)
    /\ FieldValue(Unwrap(form), "SSH command") = << "u", "@" >>
    /\ FieldValue(Unwrap(form), "Host / IP") = << >>
    /\ Trim(FieldValue(Unwrap(form), "Name")) # << >>


EnterKey == Key("Enter", "", "")

\* C27: Enter in Form mode with the bastion picker open goes to the picker
\* and submits nothing: the name of the highlighted candidate is written
\* into the Bastion field (the field is left as it is when the picker lists
\* no candidate), the picker is closed, the mode stays Form, and the
\* registry, the history stack and the store are untouched.
PickerEnterCommitsCandidate ==
    [][ (PickerShown /\ pc = "poll" /\ on_key(EnterKey)) =>
            /\ mode' = "Form"
            /\ IsSome(form')
            /\ ~IsSome(Unwrap(form').bastion_dropdown)
            /\ FieldValue(Unwrap(form'), "Bastion") =
                   IF Picker.filtered_indices = << >>
                   THEN FieldValue(Unwrap(form), "Bastion")
                   ELSE config.hosts[
                            Picker.filtered_indices[Picker.selected + 1] + 1].name
            /\ \A k \in 1..Len(Unwrap(form).fields) :
                   Unwrap(form).fields[k].label # "Bastion" =>
                       Unwrap(form').fields[k] = Unwrap(form).fields[k]
            /\ result' = "None"
            /\ UNCHANGED << config, history, store >>
      ]_vars

\* The form edits the first host, which has no bastion, of a registry of
\* three; the Bastion field holds the name of the third host, which only
\* Enter on the picker's second candidate writes, and the picker is closed.
PickedSecondCandidate ==
    /\ mode = "Form"
    /\ op = "form_input"
    /\ IsSome(form)
    /\ Unwrap(form).kind = "Edit"
    /\ ~IsSome(Unwrap(form).bastion_dropdown)
    /\ FieldValue(Unwrap(form), "Bastion") = << "c" >>
    /\ Len(config.hosts) = 3
    /\ filtered_indices[selected + 1] = 0
    /\ config.hosts[1].bastion = None
    /\ config.hosts[3].name = << "c" >>


\* The modal state agrees with the mode: a form exists exactly in Form
\* mode, a confirmation exactly in Confirm mode, and a picker only on the
\* Bastion field of the form.
ModalStateConsistent ==
    /\ IsSome(form) <=> mode = "Form"
    /\ IsSome(confirm) <=> mode = "Confirm"
    /\ IsSome(form) /\ IsSome(Unwrap(form).bastion_dropdown) =>
           ActiveLabel(Unwrap(form)) = "Bastion"

\* The keys that discard an open picker.
PickerClosingKeys ==
    { Key(code, "", "") : code \in { "Tab", "BackTab", "Enter", "Esc" } }
    \cup { Plain(" ") }

\* C28: after every step a form exists exactly when the mode is Form, a
\* confirmation exactly when the mode is Confirm, and a picker only while
\* the operator is on the Bastion field of the form; Tab, BackTab, Enter,
\* Esc and space on an open picker leave no picker open, and Up and Down
\* that leave the Bastion field leave none either.
ModalStateMatchesMode ==
    [][ /\ ModalStateConsistent'
        /\ (PickerShown /\ pc = "poll"
                /\ \E key \in PickerClosingKeys : on_key(key)) =>
               ~(IsSome(form') /\ IsSome(Unwrap(form').bastion_dropdown))
        /\ (IsSome(form) /\ IsSome(form')
                /\ ActiveLabel(Unwrap(form)) = "Bastion"
                /\ ActiveLabel(Unwrap(form')) # "Bastion") =>
               ~IsSome(Unwrap(form').bastion_dropdown) ]_vars

\* An Add form whose Bastion field holds the name of a registered host no
\* key types: the picker's Enter wrote it, closed the picker and left the
\* form open.
PickerClosedByPick ==
    /\ mode = "Form"
    /\ op = "form_input"
    /\ IsSome(form)
    /\ ~IsSome(confirm)
    /\ Unwrap(form).kind = "Add"
    /\ ActiveLabel(Unwrap(form)) = "Bastion"
    /\ ~IsSome(Unwrap(form).bastion_dropdown)
    /\ FieldValue(Unwrap(form), "Bastion") = << "a" >>


\* The argument list C29 describes for a host, its rendered chain, the
\* override of the connect prompt and the key the key policy selected.
LaunchArguments(host, chain, override, key) ==
    (IF IsSome(host.bastion) THEN << << "-", "J" >>, chain >> ELSE << >>)
    \o (IF IsSome(host.port)
        THEN << << "-", "p" >>, to_string(Unwrap(host.port)) >> ELSE << >>)
    \o (IF IsSome(key) THEN << << "-", "i" >>, Unwrap(key) >> ELSE << >>)
    \o host.options
    \o << (IF IsSome(host.user) THEN Unwrap(host.user) \o << "@" >>
           ELSE << >>) \o host.address >>
    \o (IF IsSome(override) THEN << Unwrap(override) >>
        ELSE IF IsSome(host.remote_command)
        THEN << Unwrap(host.remote_command) >>
        ELSE << >>)

\* C29: the arguments of a launch are, in this order, -J and the chain only
\* if the host has a bastion, -p and the port only if it has a port, -i and
\* the key only if the key policy selects one, the host's options in stored
\* order, the target [user@]address, then the override of the connect
\* prompt when one was typed and else the stored remote command if any.
LaunchArgumentsInOrder ==
    [][ (pc = "poll" /\ op' = "connect" /\ result' = "RunSsh"
         /\ IsSome(current_host(config, filtered_indices, selected))) =>
            LET host == Unwrap(current_host(config, filtered_indices, selected))
                chain == IF IsSome(host.bastion)
                         THEN RenderedChain(config, Unwrap(host.bastion))
                         ELSE << >>
            IN  \E env \in Envs :
                    launch' = LaunchArguments(host, chain, ConnectOverride,
                                  select_key(host.key_path, config.default_key,
                                             env))
      ]_vars

\* Host a, which has a bastion, a port, a key, two options and a stored
\* remote command, has been launched with the override x: the override is
\* the only trailing command.
LaunchedWithEveryArgument ==
    /\ op = "connect"
    /\ result = "RunSsh"
    /\ launch = << << "-", "J" >>, << "b", ":", "2" >>,
                   << "-", "p" >>, << "2", "2" >>,
                   << "-", "i" >>, << "/", "k" >>,
                   << "-", "v" >>, << "-", "o" >>,
                   << "u", "@", "h" >>, << "x" >> >>


\* The index a selection is clamped to in a list of n rows.
Clamped(sel, n) == IF sel < n THEN sel ELSE IF n = 0 THEN 0 ELSE n - 1

\* The step rebuilt the main list and returned with the rebuild's index: a
\* Search keystroke that changed the filter, or a committed add, edit,
\* delete, undo or reload.
MainListRebuilt ==
    /\ pc = "poll"
    /\ result' = "None"
    /\ \/ op' = "search" /\ filter' # filter
       \/ op' \in { "add", "edit" } /\ mode' = "Normal"
       \/ op' \in { "delete", "undo", "reload" }

\* The step duplicated the current host: the copy is the last host of the
\* registry.
DuplicateDone == pc = "poll" /\ result' = "None" /\ op' = "duplicate"
CopyRows ==
    { k \in 1..Len(filtered_indices') :
          filtered_indices'[k] = Len(config'.hosts) - 1 }

\* The step rebuilt the picker's candidates: it opened the picker or changed
\* the picker's text.
PickerRebuilt ==
    /\ pc = "poll"
    /\ op' = "form_input"
    /\ IsSome(form')
    /\ IsSome(Unwrap(form').bastion_dropdown)
    /\ \/ ~IsSome(Unwrap(form).bastion_dropdown)
       \/ Unwrap(Unwrap(form').bastion_dropdown).search_filter
              # Unwrap(Unwrap(form).bastion_dropdown).search_filter

\* C30 as stated: after every rebuild of the main list (a Search keystroke,
\* an add, edit, delete, undo or reload; duplicate selects the copy after
\* its rebuild and is left out) and after every rebuild of the picker's
\* candidates the selection index is 0.
SelectionResetOnEveryRebuild ==
    [][ /\ MainListRebuilt => selected' = 0
        /\ PickerRebuilt =>
               Unwrap(Unwrap(form').bastion_dropdown).selected = 0 ]_vars

\* C30: every rebuild of the main list keeps the selection index and clamps
\* it to the new length of the list, after which duplicate moves it to the
\* row of the copy when the list shows the copy; every rebuild of the
\* picker's candidates resets the picker's index to 0.
SelectionKeptAndClampedOnRebuild ==
    [][ /\ MainListRebuilt =>
               selected' = Clamped(selected, Len(filtered_indices'))
        /\ DuplicateDone =>
               IF CopyRows # { } THEN selected' + 1 \in CopyRows
               ELSE selected' = Clamped(selected, Len(filtered_indices'))
        /\ PickerRebuilt =>
               Unwrap(Unwrap(form').bastion_dropdown).selected = 0 ]_vars

\* The second row was selected when its host was edited, and it is still
\* selected after the rebuild that follows the commit.
EditedRowStaysSelected ==
    /\ op = "edit"
    /\ result = "None"
    /\ mode = "Normal"
    /\ Len(filtered_indices) = 2
    /\ selected = 1


\* C31: in every state each field of an open form has its cursor between 0
\* and the length of its text, and the quick-connect cursor lies between 0
\* and the length of the quick-connect buffer while the buffer exists.
CursorsWithinBuffers ==
    /\ IsSome(form) =>
           \A k \in 1..Len(Unwrap(form).fields) :
               /\ 0 <= Unwrap(form).fields[k].cursor
               /\ Unwrap(form).fields[k].cursor
                      <= Len(Unwrap(form).fields[k].value)
    /\ IsSome(quick_input) =>
           /\ 0 <= quick_cursor
           /\ quick_cursor <= Len(Unwrap(quick_input))

\* An Add form on its command field: the sync has copied the address into
\* Host / IP and the cursor has been moved to the front of the command.
CursorMovedThenSynced ==
    /\ mode = "Form"
    /\ op = "form_input"
    /\ IsSome(form)
    /\ Unwrap(form).kind = "Add"
    /\ Unwrap(form).index = 0
    /\ Unwrap(form).fields[1].value = << "u" >>
    /\ Unwrap(form).fields[1].cursor = 0
    /\ FieldValue(Unwrap(form), "Host / IP") = << "u" >>


\* The index into the registry of the selected row.
SelectedIndex == filtered_indices[selected + 1]

\* The step committed the form: save_host reported the host added or
\* updated.
SubmitSucceeded ==
    /\ pc = "poll"
    /\ op' \in { "add", "edit" }
    /\ status'.kind = "Info"

\* C32: a successful submission of an Add form appends one host and leaves
\* the hosts before it as they were; a successful submission of an Edit form
\* changes at most the host at the selected index, which no key moves while
\* the form is open, with or without a search filter; either way the mode is
\* Normal and the form is gone.  A confirmed delete removes the host at the
\* selected index and keeps the others in order.
CommitChangesOnePlace ==
    [][ /\ (SubmitSucceeded /\ op' = "add") =>
               /\ Len(config'.hosts) = Len(config.hosts) + 1
               /\ SubSeq(config'.hosts, 1, Len(config.hosts)) = config.hosts
               /\ mode' = "Normal" /\ form' = None
        /\ (SubmitSucceeded /\ op' = "edit") =>
               /\ selected < Len(filtered_indices)
               /\ Len(config'.hosts) = Len(config.hosts)
               /\ \A k \in 1..Len(config.hosts) :
                      k # SelectedIndex + 1 =>
                          config'.hosts[k] = config.hosts[k]
               /\ mode' = "Normal" /\ form' = None
        /\ (mode = "Form" /\ mode' = "Form") =>
               UNCHANGED << filtered_indices, selected >>
        /\ (pc = "poll" /\ op' = "delete") =>
               /\ selected < Len(filtered_indices)
               /\ Len(config'.hosts) = Len(config.hosts) - 1
               /\ \A k \in 1..Len(config'.hosts) :
                      config'.hosts[k] =
                          config.hosts[IF k < SelectedIndex + 1 THEN k
                                       ELSE k + 1] ]_vars

\* With the search text a the list shows the second host only; it has been
\* edited through the form and the first host is as it was.
EditedThroughFilter ==
    /\ op = "edit"
    /\ mode = "Normal"
    /\ form = None
    /\ filter = << "a" >>
    /\ status.kind = "Info"
    /\ Len(config.hosts) = 2
    /\ config.hosts[1].name = << "b" >>
    /\ config.hosts[1].bastion = None
    /\ config.hosts[2].bastion = Some(<< "b" >>)


\* The spec the quick-connect buffer parses to, and a host that matches it
\* structurally: address, user, port, options, bastion and remote command.
QuickSpec == parse_ssh_spec(Unwrap(quick_input))
MatchesQuickSpec(h) ==
    /\ h.address = QuickSpec.val.address
    /\ h.user = QuickSpec.val.user
    /\ h.port = QuickSpec.val.port
    /\ h.options = QuickSpec.val.options
    /\ h.bastion = QuickSpec.val.bastion
    /\ h.remote_command = QuickSpec.val.remote_command

\* The 0-based index of the host a quick-connect targets: the first host
\* that matches, else the host appended to the registry.
QuickTarget ==
    IF \E k \in 1..Len(config.hosts) : MatchesQuickSpec(config.hosts[k])
    THEN Lowest({ k \in 1..Len(config.hosts) :
                      MatchesQuickSpec(config.hosts[k]) }) - 1
    ELSE Len(config.hosts)

\* C33: Enter in QuickConnect on a buffer that parses, when the store does
\* not fail, clears the search filter and selects the host that matched
\* the spec structurally or was just created; the command shown by a
\* dry-run and the arguments of a launch are those of that host.
QuickConnectTargetsItsHost ==
    [][ (pc = "poll" /\ op' \in { "quick_reuse", "quick_create" }
         /\ store' = config') =>
            /\ filter' = << >>
            /\ QuickTarget < Len(config'.hosts)
            /\ selected' < Len(filtered_indices')
            /\ filtered_indices'[selected' + 1] = QuickTarget
            /\ LET host == config'.hosts[QuickTarget + 1]
                   chain == IF IsSome(host.bastion)
                            THEN RenderedChain(config', Unwrap(host.bastion))
                            ELSE << >>
               IN  /\ dry_run =>
                          /\ result' = "None"
                          /\ \E env \in Envs :
                                 status' = Status("Info", "Dry-run",
                                     command_preview(host, config',
                                         config'.default_key, None, env))
                   /\ result' = "RunSsh" =>
                          \E env \in Envs :
                              launch' = LaunchArguments(host, chain, None,
                                            select_key(host.key_path,
                                                config'.default_key, env))
      ]_vars

\* With the first row selected the buffer ab was entered: the second host
\* of the registry matched, is selected and is launched.
QuickConnectReusedSecondHost ==
    /\ op = "quick_reuse"
    /\ result = "RunSsh"
    /\ filter = << >>
    /\ selected = 1
    /\ Len(config.hosts) = 2
    /\ launch[Len(launch)] = << "a", "b" >>


\* C34: in an Add form a key after which the operator is on the command
\* field and the command text is what it was (a cursor move in the command
\* field, or a navigation key that arrives there) leaves the text of every
\* field as it was.
SyncOnlyOnCommandEdits ==
    [][ (pc = "poll" /\ mode = "Form" /\ op' = "form_input"
         /\ IsSome(form) /\ IsSome(form')
         /\ Unwrap(form).kind = "Add"
         /\ Unwrap(form').index = 0
         /\ Unwrap(form').fields[1].value = Unwrap(form).fields[1].value) =>
            \A k \in 1..Len(Unwrap(form).fields) :
                Unwrap(form').fields[k].value = Unwrap(form).fields[k].value
      ]_vars


\* C35: when validate-all accepts the registry, Resolve of the bastion of
\* every host of the registry succeeds or fails on a name no host carries;
\* it never reports a circular reference.
ValidatedRegistryResolvesWithoutCycle ==
    validate_bastions(config).ok =>
        \A k \in 1..Len(config.hosts) :
            IsSome(config.hosts[k].bastion) =>
                LET r == build_bastion_string(config,
                             Unwrap(config.hosts[k].bastion), << >>)
                IN  r.ok \/ r.err = "bastion host not found"

\* A registry committed through the Edit form, which validate-all accepts:
\* the chain of the first host passes through the second and the third host
\* and ends on a name no host carries.
CommittedChainEndsOnUnknownName ==
    /\ op = "edit"
    /\ status.kind = "Info"
    /\ validate_bastions(config).ok
    /\ Len(config.hosts) = 3
    /\ config.hosts[1].bastion = Some(config.hosts[2].name)
    /\ config.hosts[2].bastion = Some(config.hosts[3].name)
    /\ IsSome(config.hosts[3].bastion)
    /\ build_bastion_string(config, Unwrap(config.hosts[1].bastion),
                            << >>).err = "bastion host not found"
    /\ ~IsSome(find_host(config, Unwrap(config.hosts[3].bastion)))


\* The number of distinct host names of a registry.
NameCount(cfg) ==
    Cardinality({ cfg.hosts[k].name : k \in 1..Len(cfg.hosts) })

\* Name n has been met before position i of the walk e that started with
\* the names of start.
MetBefore(start, e, i) ==
    \/ \E k \in 1..Len(start) : start[k] = e[i]
    \/ \E j \in 1..(i - 1) : e[j] = e[i]

\* The first host called n has a bastion.
NamesHostWithBastion(cfg, n) ==
    /\ IsSome(find_host(cfg, n))
    /\ IsSome(cfg.hosts[Unwrap(find_host(cfg, n))].bastion)

\* What C36 says of a walk e over the names of a registry: it is not empty,
\* it passes only new names of hosts with a bastion, it stops on the first
\* name met before, on a name no host carries or on a host without bastion,
\* and it has at most one step more than there are distinct names.
WalkStops(cfg, start, e) ==
    /\ Len(e) >= 1
    /\ Len(e) <= NameCount(cfg) + 1
    /\ \A i \in 1..(Len(e) - 1) :
           ~MetBefore(start, e, i) /\ NamesHostWithBastion(cfg, e[i])
    /\ \/ MetBefore(start, e, Len(e))
       \/ ~IsSome(find_host(cfg, e[Len(e)]))
       \/ ~NamesHostWithBastion(cfg, e[Len(e)])

\* C36: for every host with a bastion the walk of validate-all and the
\* recursion of Resolve stop on the first repeated name, on a name no host
\* carries or on a host without bastion, after at most the number of
\* distinct names plus one steps; validate-all reports a circular reference
\* exactly when its walk stopped on a repeated name, and Resolve reports a
\* circular reference or a missing host exactly when its recursion stopped
\* on a repeated or an unknown name.
WalksStopWithinDistinctNames ==
    \A k \in 1..Len(config.hosts) :
        IsSome(config.hosts[k].bastion) =>
            LET h == config.hosts[k]
                b == Unwrap(h.bastion)
                w == walk_examined(config, << h.name >>, b)
                r == resolve_examined(config, b, << >>)
            IN  /\ WalkStops(config, << h.name >>, w)
                /\ WalkStops(config, << >>, r)
                /\ walk_chain(config, << h.name >>, b).ok
                       <=> ~MetBefore(<< h.name >>, w, Len(w))
                /\ build_bastion_string(config, b, << >>).err =
                       IF MetBefore(<< >>, r, Len(r))
                       THEN "circular bastion reference detected"
                       ELSE IF ~IsSome(find_host(config, r[Len(r)]))
                       THEN "bastion host not found"
                       ELSE ""

\* A connect of the first of two hosts of the same name was refused: its
\* bastion chain goes through the second host back to the shared name, and
\* the third host's bastion is a name no host carries.
ConnectRefusedAmongDuplicateNames ==
    /\ op = "connect"
    /\ result = "Err"
    /\ selected = 0
    /\ Len(config.hosts) = 3
    /\ config.hosts[1].name = config.hosts[3].name
    /\ config.hosts[1].bastion = Some(config.hosts[2].name)
    /\ config.hosts[2].bastion = Some(config.hosts[1].name)
    /\ IsSome(config.hosts[3].bastion)
    /\ ~IsSome(find_host(config, Unwrap(config.hosts[3].bastion)))


\* The list indices over registry cfg with filter text and selection sel
\* agree: the entries are pairwise distinct indices of hosts, the list is the
\* fuzzy filter of text over cfg, and sel is a row of it, or 0 when it has no
\* row, so that a selection on a row resolves to a host.
ListAgrees(cfg, indices, text, sel) ==
    /\ \A k \in 1..Len(indices) :
           /\ 0 <= indices[k]
           /\ indices[k] < Len(cfg.hosts)
           /\ \A j \in 1..(k - 1) : indices[j] # indices[k]
    /\ indices = ranked_indices(cfg, text, None)
    /\ IF indices = << >> THEN sel = 0
       ELSE /\ sel < Len(indices)
            /\ current_host(cfg, indices, sel) =
                   Some(cfg.hosts[indices[sel + 1] + 1])

\* C37: the main list agrees with the registry in every state reached
\* without a store failure: an event that starts from agreement and meets no
\* store failure ends in agreement.
ListAgreesUnlessStoreFailed ==
    [][ (ListAgrees(config, filtered_indices, filter, selected) /\
             ~StoreFailed') =>
            ListAgrees(config', filtered_indices', filter', selected') ]_vars

\* The second of two rows was selected and its host deleted: the list has
\* one row left, the selection is on it, and list and registry agree.
DeletedLastRow ==
    /\ op = "delete"
    /\ result = "None"
    /\ Len(pre) = 1
    /\ Len(pre[1].hosts) = 2
    /\ Len(config.hosts) = 1
    /\ config.hosts[1] = pre[1].hosts[1]
    /\ filtered_indices = << 0 >>
    /\ selected = 0
    /\ ListAgrees(config, filtered_indices, filter, selected)


\* The status line shows that the registry was reloaded and nothing has
\* replaced that message since.
ReloadedLast == status = Status("Info", "Reloaded config.", << >>)

\* C38: a manual reload makes the stored registry the live one and leaves
\* the history stack as it was, and an Undo after a reload makes the newest
\* snapshot, which is older than the reload, the live registry, removes it
\* from the stack and, when the save succeeds, stores it.
ReloadKeepsHistoryForUndo ==
    [][ /\ (pc = "poll" /\ op' = "reload" /\ result' = "None") =>
               /\ config' = store
               /\ store' = store
               /\ history' = history
        /\ (pc = "poll" /\ ReloadedLast /\ op' = "undo") =>
               /\ history # << >>
               /\ config' = history[Len(history)]
               /\ history' = SubSeq(history, 1, Len(history) - 1)
               /\ result' = "None" => store' = config' ]_vars

\* A reload has just made the stored registry the live one while the stack
\* holds a snapshot taken before the reload that differs from it: an Undo
\* from here replaces the reloaded registry.
ReloadedWithSnapshotBelow ==
    /\ op = "reload"
    /\ result = "None"
    /\ ReloadedLast
    /\ config = store
    /\ history # << >>
    /\ pre = history
    /\ history[Len(history)] # config

\* The events that commit no mutation: selection moves, Search opening and
\* editing, opening and escaping a form, form field editing, cancelling a
\* confirmation, toggling dry-run, overlay keys, Connect with the ssh run
\* that follows it, and a quick-connect that reuses a host.
NonCommitting ==
    { "move", "open_search", "search", "open_form", "close_form",
      "form_input", "cancel_confirm", "toggle_dry_run", "overlay", "connect",
      "run_ssh", "quick_reuse" }

\* C39: an event that commits no mutation leaves the registry and the
\* history stack as they were.
NonCommittingKeepsRegistryAndHistory ==
    [][ op' \in NonCommitting => config' = config /\ history' = history ]_vars

\* A quick-connect has just reused a host of a registry that an earlier
\* mutation changed: the stack still holds that one snapshot.
ReusedAfterMutation ==
    /\ op = "quick_reuse"
    /\ result = "None"
    /\ Len(history) = 1
    /\ history[1] # config
    /\ store = config


\* C40: in an Add form, a key typed while the operator is on another field
\* than Name fills a blank Name exactly when it leaves the operator on the
\* command field and that field parses to a spec with a user, and then Name
\* is that user, "@" and the address of that parse; otherwise, and whenever
\* Name is already filled, the key leaves Name as it is.
SyncFillsNameOnce ==
    [][ (mode = "Form" /\ pc = "poll" /\ op' = "form_input" /\ IsSome(form)
         /\ IsSome(form') /\ Unwrap(form).kind = "Add"
         /\ ActiveLabel(Unwrap(form)) # "Name") =>
            LET f == Unwrap(form)
                g == Unwrap(form')
                text == non_empty(FieldValue(g, "SSH command"))
                parsed == parse_ssh_spec(Unwrap(text))
            IN  IF /\ Trim(FieldValue(f, "Name")) = << >>
                   /\ ActiveLabel(g) = "SSH command"
                   /\ IsSome(text)
                   /\ parsed.ok
                   /\ IsSome(parsed.val.user)
                THEN FieldValue(g, "Name") =
                         Unwrap(parsed.val.user) \o << "@" >>
                             \o parsed.val.address
                ELSE FieldValue(g, "Name") = FieldValue(f, "Name")
      ]_vars

\* The command field holds a user and an address, and Name is still what
\* the sync made of the command when only the user and "@" were typed.
NameKeptFromUnfinishedCommand ==
    /\ op = "form_input"
    /\ IsSome(form)
    /\ Unwrap(form).kind = "Add"
    /\ ActiveLabel(Unwrap(form)) = "SSH command"
    /\ FieldValue(Unwrap(form), "SSH command") = << "u", "@", "h" >>
    /\ FieldValue(Unwrap(form), "Host / IP") = << "h" >>
    /\ FieldValue(Unwrap(form), "User") = << "u" >>
    /\ FieldValue(Unwrap(form), "Name") = << "u", "@" >>

=============================================================================
